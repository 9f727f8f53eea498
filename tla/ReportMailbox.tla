---------------------------- MODULE ReportMailbox ----------------------------
(***************************************************************************)
(* What the clients of GetHistory are promised: the report of a finished   *)
(* invocation waits until a request takes it, together with all the        *)
(* reports that wait then.  A report is named by the thread that published *)
(* it and its serial number among the reports of that thread.              *)
(***************************************************************************)
EXTENDS Naturals, Sequences

CONSTANT Publishers (* the threads that run main                            *)

VARIABLES
  published,       (* how many reports each thread has published            *)
  waiting,         (* the reports no request has taken                      *)
  delivered        (* what each request took, in the order of the requests  *)

mailboxVars == <<published, waiting, delivered>>

Init ==
  /\ published = [p \in Publishers |-> 0]
  /\ waiting = {}
  /\ delivered = <<>>

Publish(p) ==
  /\ published' = [published EXCEPT ![p] = @ + 1]
  /\ waiting' = waiting \cup {<<p, published[p] + 1>>}
  /\ UNCHANGED delivered

Take ==
  /\ delivered' = Append(delivered, waiting)
  /\ waiting' = {}
  /\ UNCHANGED published

Next == (\E p \in Publishers : Publish(p)) \/ Take

Spec == Init /\ [][Next]_mailboxVars

Names == UNION {{p} \X (1..published[p]) : p \in Publishers}

(* Every report that was published waits or was delivered, to one client:  *)
(* none is lost and none is given twice.                                   *)
DeliveredOnce ==
  /\ Names = waiting \cup UNION {delivered[h] : h \in 1..Len(delivered)}
  /\ \A h \in 1..Len(delivered) :
       /\ delivered[h] \cap waiting = {}
       /\ \A g \in 1..Len(delivered) : g # h => delivered[g] \cap delivered[h] = {}
==============================================================================
