------------------------------ MODULE ClientTrust ------------------------------
(***************************************************************************)
(* Which coordinator a client talks to (internal/crypto/tls.go): workers   *)
(* and submit commands of one account are started, with a coordinator's    *)
(* fingerprint or without, check every peer they connect to against it or  *)
(* against the trust record, and keep that record, a file they share.      *)
(*                                                                         *)
(* writeTrustRecord rewrites the file in place: it is truncated, written   *)
(* and synced.  The first step fails, or the process is killed, or another *)
(* one reads or writes the file between any two of them, and a power       *)
(* failure loses what is not synced.                                       *)
(*                                                                         *)
(* A peer is the identity it presents; what makes a coordinator keep one   *)
(* is CoordinatorIdentity.  A fingerprint is the identity it names, and    *)
(* contents that name none are torn.  A record is always 96 bytes, so two  *)
(* that are written over each other do not mix.                            *)
(***************************************************************************)
EXTENDS FiniteSets, Naturals

CONSTANTS
    Clients,        \* processes that use the same trust record
    Identities,     \* the identities peers can present
    NoFingerprint,  \* no --coordinator-fingerprint
    Absent, Torn,   \* the record does not exist, or names no identity
    MaxStarts       \* bound: how many clients are started

ASSUME DistinctAssumption ==
    /\ NoFingerprint \notin Identities /\ Absent \notin Identities
    /\ Torn \notin Identities /\ Torn # Absent
ASSUME StartsAssumption == MaxStarts \in Nat

VARIABLES
    record,       \* the trust record, as processes read it
    disk,         \* what a power failure may leave of it
    pc,           \* per client: off, ready to connect, or how far it is in writeTrustRecord
    explicit, trusted, needsUpdate,   \* its trustVerifier
    starts,       \* how many clients have been started
    given,        \* history: the identities users have given as a fingerprint
    met,          \* history: the identities peers have presented
    sent,         \* history: the identities clients have authenticated to
    interrupted   \* history: a rewrite failed or was cut short, and none made up for it

trustVars == <<record, disk, pc, explicit, trusted, needsUpdate, starts,
               given, met, sent, interrupted>>

verifier == <<explicit, trusted, needsUpdate>>
history == <<given, met, sent>>

\* Nothing is recorded, or what an earlier client has, or the file was damaged.
TrustInit ==
    /\ record \in {Absent, Torn} \union Identities
    /\ disk = record
    /\ pc = [c \in Clients |-> "off"]
    /\ explicit = [c \in Clients |-> NoFingerprint]
    /\ trusted = [c \in Clients |-> NoFingerprint]
    /\ needsUpdate = [c \in Clients |-> FALSE]
    /\ starts = 0
    /\ given = {record} \ {Absent, Torn}
    /\ met = given /\ sent = given
    /\ interrupted = (record = Torn)

-----------------------------------------------------------------------------
(* NewCoordinatorClientConfig *)

Refuses(fingerprint) == fingerprint = NoFingerprint /\ record \in {Absent, Torn}

\* Mutant: a client without a fingerprint compares it with the record, too.
StartAlwaysUpdating(c, fingerprint) ==
    /\ pc[c] = "off" /\ starts < MaxStarts
    /\ ~Refuses(fingerprint)
    /\ starts' = starts + 1
    /\ pc' = [pc EXCEPT ![c] = "ready"]
    /\ explicit' = [explicit EXCEPT ![c] = fingerprint]
    /\ trusted' = [trusted EXCEPT ![c] = IF fingerprint = NoFingerprint THEN record
                                         ELSE fingerprint]
    /\ needsUpdate' = [needsUpdate EXCEPT ![c] = fingerprint # record]
    /\ given' = given \union ({fingerprint} \ {NoFingerprint})
    /\ UNCHANGED <<record, disk, met, sent, interrupted>>

\* Without a fingerprint a client starts only with one that is recorded.
Start(c, fingerprint) ==
    /\ pc[c] = "off" /\ starts < MaxStarts
    /\ ~Refuses(fingerprint)
    /\ starts' = starts + 1
    /\ pc' = [pc EXCEPT ![c] = "ready"]
    /\ explicit' = [explicit EXCEPT ![c] = fingerprint]
    /\ trusted' = [trusted EXCEPT ![c] = IF fingerprint = NoFingerprint THEN record
                                         ELSE fingerprint]
    /\ needsUpdate' = [needsUpdate EXCEPT ![c] = fingerprint \notin {NoFingerprint, record}]
    /\ given' = given \union ({fingerprint} \ {NoFingerprint})
    /\ UNCHANGED <<record, disk, met, sent, interrupted>>

-----------------------------------------------------------------------------
(* verifyConnection: the lock of the verifier makes it one at a time per client *)

Goto(c, place) == pc' = [pc EXCEPT ![c] = place]

\* A peer that presents another identity is refused; so is the right one when the
\* record cannot be opened to be replaced.
Refused(c, peer) ==
    /\ pc[c] = "ready"
    /\ peer # trusted[c] \/ needsUpdate[c]
    /\ met' = met \union {peer}
    /\ UNCHANGED <<record, disk, pc, verifier, starts, given, sent, interrupted>>

\* Mutant: any peer will do for a client that has yet to save what it trusts.
ConnectUnverified(c, peer) ==
    /\ pc[c] = "ready"
    /\ peer = trusted[c] => ~needsUpdate[c]
    /\ peer = trusted[c] \/ needsUpdate[c]
    /\ met' = met \union {peer}
    /\ sent' = sent \union {peer}
    /\ UNCHANGED <<record, disk, pc, verifier, starts, given, interrupted>>

\* The handshake succeeds, and the request that follows carries the token.
Connect(c, peer) ==
    /\ pc[c] = "ready"
    /\ peer = trusted[c] /\ ~needsUpdate[c]
    /\ met' = met \union {peer}
    /\ sent' = sent \union {peer}
    /\ UNCHANGED <<record, disk, pc, verifier, starts, given, interrupted>>

\* writeTrustRecord: the file is opened, which empties it,
Truncate(c, peer) ==
    /\ pc[c] = "ready"
    /\ peer = trusted[c] /\ needsUpdate[c]
    /\ met' = met \union {peer}
    /\ record' = Torn
    /\ Goto(c, "truncated")
    /\ UNCHANGED <<disk, verifier, starts, given, sent, interrupted>>

\* written,
Write(c) ==
    /\ pc[c] = "truncated"
    /\ record' = trusted[c]
    /\ Goto(c, "written")
    /\ UNCHANGED <<disk, verifier, starts, history, interrupted>>

\* Mutant: the file is not synced.
SaveUnsynced(c) ==
    /\ pc[c] = "written"
    /\ needsUpdate' = [needsUpdate EXCEPT ![c] = FALSE]
    /\ interrupted' = (interrupted /\ record = Torn)
    /\ sent' = sent \union {trusted[c]}
    /\ Goto(c, "ready")
    /\ UNCHANGED <<record, disk, explicit, trusted, starts, given, met>>

\* and synced, with whatever it contains by then; the handshake succeeds.
Save(c) ==
    /\ pc[c] = "written"
    /\ disk' = record
    /\ needsUpdate' = [needsUpdate EXCEPT ![c] = FALSE]
    /\ interrupted' = (interrupted /\ record = Torn)
    /\ sent' = sent \union {trusted[c]}
    /\ Goto(c, "ready")
    /\ UNCHANGED <<record, explicit, trusted, starts, given, met>>

\* A step of writeTrustRecord fails: the peer is refused, and the next handshake
\* tries again.
SaveFails(c) ==
    /\ pc[c] \in {"truncated", "written"}
    /\ interrupted' = TRUE
    /\ Goto(c, "ready")
    /\ UNCHANGED <<record, disk, verifier, starts, history>>

-----------------------------------------------------------------------------
(* The end of a client *)

Writing == {c \in Clients : pc[c] \in {"truncated", "written"}}

\* It returns or is killed.
Exit(c) ==
    /\ pc[c] # "off"
    /\ interrupted' = (interrupted \/ c \in Writing)
    /\ Goto(c, "off")
    /\ explicit' = [explicit EXCEPT ![c] = NoFingerprint]
    /\ trusted' = [trusted EXCEPT ![c] = NoFingerprint]
    /\ needsUpdate' = [needsUpdate EXCEPT ![c] = FALSE]
    /\ UNCHANGED <<record, disk, starts, history>>

\* What was not synced is kept, lost or damaged.
PowerFails ==
    /\ \E left \in {record, disk, Torn} :
          /\ record = disk => left = record
          /\ record' = left /\ disk' = left
    /\ interrupted' = (interrupted \/ Writing # {})
    /\ pc' = [c \in Clients |-> "off"]
    /\ explicit' = [c \in Clients |-> NoFingerprint]
    /\ trusted' = [c \in Clients |-> NoFingerprint]
    /\ needsUpdate' = [c \in Clients |-> FALSE]
    /\ UNCHANGED <<starts, history>>

-----------------------------------------------------------------------------
(* Specification *)

TrustNext ==
    \/ \E c \in Clients :
          \/ \E fingerprint \in Identities \union {NoFingerprint} : Start(c, fingerprint)
          \/ \E peer \in Identities : Refused(c, peer) \/ Connect(c, peer) \/ Truncate(c, peer)
          \/ Write(c) \/ Save(c) \/ SaveFails(c) \/ Exit(c)
    \/ PowerFails

TrustSpec == TrustInit /\ [][TrustNext]_trustVars

-----------------------------------------------------------------------------
(* Correctness *)

\* With the types: a client that runs trusts one identity, the one it was given if it
\* was, and only a client that was given one and has not saved it writes the record.
TrustTypeOK ==
    /\ record \in {Absent, Torn} \union Identities
    /\ disk \in {Absent, Torn} \union Identities
    /\ pc \in [Clients -> {"off", "ready", "truncated", "written"}]
    /\ explicit \in [Clients -> Identities \union {NoFingerprint}]
    /\ trusted \in [Clients -> Identities \union {NoFingerprint}]
    /\ needsUpdate \in [Clients -> BOOLEAN]
    /\ starts \in 0..MaxStarts
    /\ given \subseteq Identities /\ met \subseteq Identities /\ sent \subseteq Identities
    /\ interrupted \in BOOLEAN
    /\ \A c \in Clients :
          /\ pc[c] # "off" <=> trusted[c] # NoFingerprint
          /\ explicit[c] \in {NoFingerprint, trusted[c]}
          /\ c \in Writing => needsUpdate[c]
          /\ needsUpdate[c] => explicit[c] # NoFingerprint

\* Whoever else a client reached, it has authenticated only to identities that a user
\* gave as a fingerprint, in this run of it or in one whose record it reads; and only
\* one of them that a peer has then presented is ever recorded.
VouchedOnly ==
    /\ sent \subseteq given
    /\ \A kept \in {record, disk} : kept \in Identities => kept \in given \intersect met

\* Once a client has used a coordinator, a client without a fingerprint is refused for
\* a reason: a rewrite of the record is under way, or one failed or was cut short.
\* After any rewrite that succeeded this outlasts kills and power failures.
RefusalHasCause ==
    Refuses(NoFingerprint) => sent = {} \/ Writing # {} \/ interrupted

=============================================================================
