------------------------------ MODULE MCSerSync ------------------------------
(* Every line: at each rate, what gets through. *)
EXTENDS SerSync
MCLines == [Rate -> {{}, {"byte"}, {"byte", "client"}, {"byte", "server"}, {"byte", "client", "server"}}]
=============================================================================
