---------------------------- MODULE MCExampleServer ----------------------------
(* ExampleServer on small instances. *)
EXTENDS ExampleServer, TLC

Paths == {INTERVAL, LAST_FRAME_ID, PRINT_SET}
MCReqId == 1..MaxInputs
MCValue == Frame \cup 0..(MaxTicks - 1)

(* Workers and clients are interchangeable, and so are frames. *)
Symmetry == Permutations(Worker) \cup Permutations(Client) \cup Permutations(Frame)
===============================================================================
