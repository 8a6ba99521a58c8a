-------------------------- MODULE MCSupervisorLoop --------------------------
(* Small instances of SupervisorLoop for TLC. *)
EXTENDS SupervisorLoop

(* A peered request, with and without a conversation to fall back on. *)
PeeredRequests ==
  {[unified |-> FALSE, history |-> h, kb |-> FALSE, outside |-> TRUE] : h \in BOOLEAN}

UnifiedRequests ==
  {[unified |-> TRUE, history |-> FALSE, kb |-> k, outside |-> FALSE] : k \in BOOLEAN}

(* A merged peer, with and without a knowledge base to fall back on, beside a
   peered request with nothing to fall back on. *)
EitherRequest ==
  UnifiedRequests \cup
    {[unified |-> FALSE, history |-> FALSE, kb |-> FALSE, outside |-> TRUE]}

(* Ask for nothing, or for one other capability. *)
FewNeeds == {<<>>, <<"code">>}
=============================================================================
