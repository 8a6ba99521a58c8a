---------------------------- MODULE MCDailyUsage ----------------------------
(* Small instances of DailyUsage for TLC. *)
EXTENDS DailyUsage, TLC

CONSTANTS ana, ben

Threads == Permutations(Slots)

(* One user whose limit the admin raises or takes away for the day, one whose
   limit is lifted. *)
Moved   == (ana :> {4}) @@ (ben :> {Unlimited})
Charges == (ana :> 8) @@ (ben :> 2)
=============================================================================
