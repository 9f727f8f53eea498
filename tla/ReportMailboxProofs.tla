------------------------- MODULE ReportMailboxProofs -------------------------
(***************************************************************************)
(* What a client may rely on follows from ReportMailbox alone.             *)
(***************************************************************************)
EXTENDS ReportMailbox, TLAPS

MailboxType ==
  /\ published \in [Publishers -> Nat]
  /\ delivered \in Seq(SUBSET (Publishers \X Nat))
  /\ waiting \in SUBSET (Publishers \X Nat)

(* The names of published reports, without the union. *)
LEMMA NamesMembers ==
  \A x : x \in Names <=> \E p \in Publishers : \E n \in 1..published[p] : x = <<p, n>>
BY DEF Names

(* No report is lost and none is given twice: DeliveredOnce, for any       *)
(* number of publishing threads, reports and requests.                     *)
THEOREM MailboxDeliversOnce == Spec => [](MailboxType /\ DeliveredOnce)
<1> DEFINE Given == UNION {delivered[h] : h \in 1..Len(delivered)}
<1>1. Init => MailboxType /\ DeliveredOnce
  BY NamesMembers DEF Init, MailboxType, DeliveredOnce
<1>2. ASSUME MailboxType, DeliveredOnce, NEW p \in Publishers, Publish(p)
      PROVE  (MailboxType /\ DeliveredOnce)'
  <2> DEFINE new == <<p, published[p] + 1>>
  <2>1. MailboxType'
    BY <1>2 DEF MailboxType, Publish
  <2>2. delivered' = delivered /\ waiting' = waiting \cup {new}
    BY <1>2 DEF Publish
  <2>3. new \notin Names
    BY <1>2, NamesMembers DEF MailboxType
  <2>4. Names' = Names \cup {new}
    <3>1. \A x : x \in Names' <=> \E q \in Publishers : \E n \in 1..published'[q] : x = <<q, n>>
      BY DEF Names
    <3>2. \A q \in Publishers : published'[q] = IF q = p THEN published[q] + 1 ELSE published[q]
      BY <1>2 DEF Publish, MailboxType
    <3>3. published[p] \in Nat
      BY <1>2 DEF MailboxType
    <3>4. ASSUME NEW x \in Names' PROVE x \in Names \cup {new}
      BY <3>1, <3>2, <3>3, NamesMembers
    <3>5. ASSUME NEW x \in Names \cup {new} PROVE x \in Names'
      <4>1. CASE x = new
        BY <3>1, <3>2, <3>3, <4>1
      <4>2. CASE x \in Names
        <5>1. PICK q \in Publishers : \E n \in 1..published[q] : x = <<q, n>>
          BY <4>2, NamesMembers
        <5>2. PICK n \in 1..published[q] : x = <<q, n>>
          BY <5>1
        <5>3. n \in 1..published'[q]
          BY <1>2, <3>2 DEF MailboxType
        <5>4. QED
          BY <3>1, <5>2, <5>3
      <4>3. QED
        BY <4>1, <4>2
    <3>6. QED
      BY <3>4, <3>5
  <2>5. \A h \in 1..Len(delivered) : delivered[h] \subseteq Names
    BY <1>2 DEF DeliveredOnce
  <2>6. QED
    BY <1>2, <2>1, <2>2, <2>3, <2>4, <2>5 DEF DeliveredOnce
<1>3. ASSUME MailboxType, DeliveredOnce, Take
      PROVE  (MailboxType /\ DeliveredOnce)'
  <2>1. MailboxType'
    BY <1>3 DEF MailboxType, Take
  <2>2. Names' = Names
    BY <1>3 DEF Take, Names
  <2>3. /\ Len(delivered') = Len(delivered) + 1 /\ Len(delivered) \in Nat
        /\ \A h \in 1..Len(delivered) : delivered'[h] = delivered[h]
        /\ delivered'[Len(delivered) + 1] = waiting
        /\ waiting' = {}
    BY <1>3 DEF Take, MailboxType
  <2>4. UNION {delivered'[h] : h \in 1..Len(delivered')} = Given \cup waiting
    BY <2>3
  <2>5. QED
    BY <1>3, <2>1, <2>2, <2>3, <2>4 DEF DeliveredOnce
<1>4. ASSUME MailboxType, DeliveredOnce, UNCHANGED mailboxVars
      PROVE  (MailboxType /\ DeliveredOnce)'
  BY <1>4 DEF mailboxVars, MailboxType, DeliveredOnce, Names
<1>5. MailboxType /\ DeliveredOnce /\ [Next]_mailboxVars => (MailboxType /\ DeliveredOnce)'
  BY <1>2, <1>3, <1>4 DEF Next
<1>6. QED
  BY <1>1, <1>5, PTL DEF Spec
==============================================================================
