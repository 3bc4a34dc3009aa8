---------------------------- MODULE MCTaskProgress ----------------------------
(* Instance of TaskProgress for TLC: the values a cfg cannot write. *)
EXTENDS TaskProgress

MCSkews == {-2, 0, 2}
===============================================================================
