--------------------------- MODULE MCWalkSchedule ------------------------------
(***************************************************************************)
(* A small tree for WalkSchedule.                                          *)
(***************************************************************************)
EXTENDS WalkSchedule

\* Directories three deep, each parent with entries left when it is descended
\* from: one worker alone has three jobs of its own, one more than MaxOpen.
MCListing ==
    [d \in {"root", "a", "b", "c", "d", "e"} |->
        CASE d = "root" -> <<"a", "b", "f">>
          [] d = "a"    -> <<"c", "e", "g">>
          [] d = "b"    -> <<"h">>
          [] d = "c"    -> <<"d", "i">>
          [] OTHER      -> <<>>]

MCEntry == {"root", "a", "b", "c", "d", "e", "f", "g", "h", "i"}
================================================================================
