-------------------------- MODULE ClientTrustProofs --------------------------
(***************************************************************************)
(* For any number of clients, coordinators and starts: a client's token    *)
(* goes to identities a user vouched for only, and a trust record that was *)
(* saved is there until a rewrite of it is cut short.                      *)
(***************************************************************************)
EXTENDS ClientTrust, TLAPS

\* Beyond what is recorded, what the clients that run trust was vouched for, and one
\* that writes it has met it.
VouchInv ==
    /\ VouchedOnly
    /\ \A c \in Clients :
          /\ trusted[c] # NoFingerprint => trusted[c] \in given
          /\ pc[c] \in {"truncated", "written"} => trusted[c] \in met

\* What the record lacks, somebody is about to write or has failed to.  A client that
\* connects without writing, and one that has written, has seen a record.
CauseInv ==
    /\ record # disk =>
          (\E c \in Clients : pc[c] \in {"truncated", "written"}) \/ interrupted = TRUE
    /\ record = Torn => (\E c \in Clients : pc[c] = "truncated") \/ interrupted = TRUE
    /\ record = Absent => sent = {} \/ interrupted = TRUE
    /\ \A c \in Clients :
          /\ pc[c] \in {"truncated", "written"} => record # Absent
          /\ pc[c] = "ready" /\ needsUpdate[c] = FALSE => record # Absent

-----------------------------------------------------------------------------
(* The types *)

LEMMA TypeInit == TrustInit => TrustTypeOK
BY DistinctAssumption, StartsAssumption DEF TrustInit, TrustTypeOK, Writing

LEMMA TypeStep == TrustTypeOK /\ [TrustNext]_trustVars => TrustTypeOK'
<1> SUFFICES ASSUME TrustTypeOK, [TrustNext]_trustVars
             PROVE  TrustTypeOK'
  OBVIOUS
<1> USE DistinctAssumption, StartsAssumption
    DEF TrustTypeOK, Writing, verifier, history
<1>1. ASSUME NEW c \in Clients, NEW fingerprint \in Identities \union {NoFingerprint},
             Start(c, fingerprint)
      PROVE  TrustTypeOK'
  BY <1>1 DEF Start, Refuses
<1>2. ASSUME NEW c \in Clients, NEW peer \in Identities,
             Refused(c, peer)
      PROVE  TrustTypeOK'
  BY <1>2 DEF Refused
<1>3. ASSUME NEW c \in Clients, NEW peer \in Identities,
             Connect(c, peer)
      PROVE  TrustTypeOK'
  BY <1>3 DEF Connect
<1>4. ASSUME NEW c \in Clients, NEW peer \in Identities,
             Truncate(c, peer)
      PROVE  TrustTypeOK'
  BY <1>4 DEF Truncate, Goto
<1>5. ASSUME NEW c \in Clients,
             Write(c)
      PROVE  TrustTypeOK'
  BY <1>5 DEF Write, Goto
<1>6. ASSUME NEW c \in Clients,
             Save(c)
      PROVE  TrustTypeOK'
  BY <1>6 DEF Save, Goto
<1>7. ASSUME NEW c \in Clients,
             SaveFails(c)
      PROVE  TrustTypeOK'
  BY <1>7 DEF SaveFails, Goto
<1>8. ASSUME NEW c \in Clients,
             Exit(c)
      PROVE  TrustTypeOK'
  BY <1>8 DEF Exit, Goto, Writing
<1>9. ASSUME PowerFails PROVE TrustTypeOK'
  BY <1>9 DEF PowerFails
<1>10. CASE UNCHANGED trustVars
  BY <1>10 DEF trustVars, verifier, history
<1>11. QED
  BY <1>1, <1>2, <1>3, <1>4, <1>5, <1>6, <1>7, <1>8, <1>9, <1>10 DEF TrustNext

\* A client that runs trusts one identity, and only one that was given a fingerprint
\* writes the record (verifyConnection and writeTrustRecord).
THEOREM TrustTypeCorrect == TrustSpec => []TrustTypeOK
BY TypeInit, TypeStep, PTL DEF TrustSpec

-----------------------------------------------------------------------------
(* Who gets the token *)

LEMMA VouchInit == TrustInit => VouchInv
BY DistinctAssumption DEF TrustInit, VouchInv, VouchedOnly

LEMMA VouchStep == TrustTypeOK /\ VouchInv /\ [TrustNext]_trustVars => VouchInv'
<1> SUFFICES ASSUME TrustTypeOK /\ VouchInv, [TrustNext]_trustVars
             PROVE  VouchInv'
  OBVIOUS
<1> USE DistinctAssumption, StartsAssumption
    DEF TrustTypeOK, Writing, VouchInv, VouchedOnly, verifier, history
<1>1. ASSUME NEW c \in Clients, NEW fingerprint \in Identities \union {NoFingerprint},
             Start(c, fingerprint)
      PROVE  VouchInv'
  BY <1>1 DEF Start, Refuses
<1>2. ASSUME NEW c \in Clients, NEW peer \in Identities,
             Refused(c, peer)
      PROVE  VouchInv'
  BY <1>2 DEF Refused
<1>3. ASSUME NEW c \in Clients, NEW peer \in Identities,
             Connect(c, peer)
      PROVE  VouchInv'
  BY <1>3 DEF Connect
<1>4. ASSUME NEW c \in Clients, NEW peer \in Identities,
             Truncate(c, peer)
      PROVE  VouchInv'
  BY <1>4 DEF Truncate, Goto
<1>5. ASSUME NEW c \in Clients,
             Write(c)
      PROVE  VouchInv'
  BY <1>5 DEF Write, Goto
<1>6. ASSUME NEW c \in Clients,
             Save(c)
      PROVE  VouchInv'
  BY <1>6 DEF Save, Goto
<1>7. ASSUME NEW c \in Clients,
             SaveFails(c)
      PROVE  VouchInv'
  BY <1>7 DEF SaveFails, Goto
<1>8. ASSUME NEW c \in Clients,
             Exit(c)
      PROVE  VouchInv'
  BY <1>8 DEF Exit, Goto, Writing
<1>9. ASSUME PowerFails PROVE VouchInv'
  BY <1>9 DEF PowerFails
<1>10. CASE UNCHANGED trustVars
  BY <1>10 DEF trustVars, verifier, history
<1>11. QED
  BY <1>1, <1>2, <1>3, <1>4, <1>5, <1>6, <1>7, <1>8, <1>9, <1>10 DEF TrustNext

\* No client authenticates to a peer whose identity no user has given, and none such
\* is ever recorded.
THEOREM TokenToVouched == TrustSpec => []VouchedOnly
<1>1. VouchInv => VouchedOnly
  BY DEF VouchInv
<1>2. QED
  BY <1>1, TypeInit, TypeStep, VouchInit, VouchStep, PTL DEF TrustSpec

-----------------------------------------------------------------------------
(* Why a client is refused *)

LEMMA CauseInit == TrustInit => CauseInv
BY DistinctAssumption DEF TrustInit, CauseInv

LEMMA CauseStep == TrustTypeOK /\ CauseInv /\ [TrustNext]_trustVars => CauseInv'
<1> SUFFICES ASSUME TrustTypeOK /\ CauseInv, [TrustNext]_trustVars
             PROVE  CauseInv'
  OBVIOUS
<1> USE DistinctAssumption, StartsAssumption
    DEF TrustTypeOK, Writing, CauseInv, verifier, history
<1>1. ASSUME NEW c \in Clients, NEW fingerprint \in Identities \union {NoFingerprint},
             Start(c, fingerprint)
      PROVE  CauseInv'
  BY <1>1 DEF Start, Refuses
<1>2. ASSUME NEW c \in Clients, NEW peer \in Identities,
             Refused(c, peer)
      PROVE  CauseInv'
  BY <1>2 DEF Refused
<1>3. ASSUME NEW c \in Clients, NEW peer \in Identities,
             Connect(c, peer)
      PROVE  CauseInv'
  BY <1>3 DEF Connect
<1>4. ASSUME NEW c \in Clients, NEW peer \in Identities,
             Truncate(c, peer)
      PROVE  CauseInv'
  BY <1>4 DEF Truncate, Goto
<1>5. ASSUME NEW c \in Clients,
             Write(c)
      PROVE  CauseInv'
  BY <1>5 DEF Write, Goto
<1>6. ASSUME NEW c \in Clients,
             Save(c)
      PROVE  CauseInv'
  BY <1>6 DEF Save, Goto
<1>7. ASSUME NEW c \in Clients,
             SaveFails(c)
      PROVE  CauseInv'
  BY <1>7 DEF SaveFails, Goto
<1>8. ASSUME NEW c \in Clients,
             Exit(c)
      PROVE  CauseInv'
  BY <1>8 DEF Exit, Goto, Writing
<1>9. ASSUME PowerFails PROVE CauseInv'
  BY <1>9 DEF PowerFails
<1>10. CASE UNCHANGED trustVars
  BY <1>10 DEF trustVars, verifier, history
<1>11. QED
  BY <1>1, <1>2, <1>3, <1>4, <1>5, <1>6, <1>7, <1>8, <1>9, <1>10 DEF TrustNext

\* Once a coordinator was used, only a rewrite under way or cut short keeps a client
\* without a fingerprint from starting.
THEOREM RefusalsHaveCause == TrustSpec => []RefusalHasCause
<1>1. CauseInv => RefusalHasCause
  BY DEF CauseInv, RefusalHasCause, Refuses, Writing
<1>2. QED
  BY <1>1, TypeInit, TypeStep, CauseInit, CauseStep, PTL DEF TrustSpec

=============================================================================
