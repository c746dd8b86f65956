------------------------ MODULE CoordinatorIdentity ------------------------
(***************************************************************************)
(* How a coordinator comes by its identity, LoadOrCreateCoordinatorIdentity *)
(* in internal/crypto/tls.go: a certificate and a private key in two files, *)
(* looked for, read and written one after the other, while other            *)
(* coordinators may be starting and any of them may be killed.              *)
(*                                                                          *)
(* An identity stands for a certificate with its key.  Files are kept by    *)
(* the operating system; the loss of what was written but not yet on the    *)
(* disk when the power fails is not modelled.                               *)
(***************************************************************************)
EXTENDS FiniteSets, Naturals

CONSTANTS
    Processes,  \* coordinator processes on one account of one machine
    Legacy,     \* working directories: where older versions kept the files
    Old,        \* identities older versions have left
    New,        \* bound: identities that can be generated
    MaxStarts   \* bound: how often a coordinator is started

Identities == Old \union New

ASSUME IdentityAssumption ==
    /\ {"absent", "torn"} \intersect Identities = {}
    /\ Old \intersect New = {}
    /\ "current" \notin Legacy
    /\ MaxStarts \in Nat

Dirs == {"current"} \union Legacy
Kinds == {"cert", "key"}

VARIABLES
    file,    \* the content of each file: absent, torn, or of an identity
    pc,      \* where each process is
    dir,     \* the directory it looks at
    cwd,     \* its working directory
    seen,    \* whether it saw a certificate there
    cert,    \* the certificate it read
    id,      \* the identity it is about to write or serves
    minted,  \* the identities generated so far
    served,  \* the identities clients have been shown
    before,  \* some identity had been, when the process started
    starts

idVars == <<file, pc, dir, cwd, seen, cert, id, minted, served, before, starts>>

Reading == {"statCert", "statKey", "readCert", "readKey"}
Writing == {"createKey", "writeKey", "createCert", "writeCert"}

\* Nothing yet in the directory of this version; anything an older version or its
\* user can have left in the working directories.
IdentityInit ==
    /\ file \in [Dirs -> [Kinds -> {"absent", "torn"} \union Old]]
    /\ \A k \in Kinds : file["current"][k] = "absent"
    /\ pc = [p \in Processes |-> "down"]
    /\ dir = [p \in Processes |-> "current"]
    /\ cwd \in [Processes -> Legacy]
    /\ seen = [p \in Processes |-> FALSE]
    /\ cert = [p \in Processes |-> "absent"]
    /\ id = [p \in Processes |-> "absent"]
    /\ minted = {}
    /\ served = {}
    /\ before = [p \in Processes |-> FALSE]
    /\ starts = 0

-----------------------------------------------------------------------------

Goto(p, place) == pc' = [pc EXCEPT ![p] = place]

Exists(d, k) == file[d][k] # "absent"

\* Mutant: equal is enough.
LoadsUnparsed(c, k) == k = c

\* tls.X509KeyPair: both parse and belong together.
Loads(c, k) == c \in Identities /\ k = c

Start(p) ==
    /\ pc[p] = "down" /\ starts < MaxStarts
    /\ starts' = starts + 1
    /\ Goto(p, "statCert")
    /\ dir' = [dir EXCEPT ![p] = "current"]
    /\ before' = [before EXCEPT ![p] = served # {}]
    /\ UNCHANGED <<file, cwd, seen, cert, id, minted, served>>

StatCert(p) ==
    /\ pc[p] = "statCert"
    /\ seen' = [seen EXCEPT ![p] = Exists(dir[p], "cert")]
    /\ Goto(p, "statKey")
    /\ UNCHANGED <<file, dir, cwd, cert, id, minted, served, before, starts>>

\* Mutant: a missing current pair is generated, whatever an older version left.
StatKeyNoLegacy(p) ==
    /\ pc[p] = "statKey"
    /\ IF seen[p] # Exists(dir[p], "key") THEN Goto(p, "failed") /\ UNCHANGED <<dir, id, minted>>
       ELSE IF seen[p] THEN Goto(p, "readCert") /\ UNCHANGED <<dir, id, minted>>
       ELSE \E new \in New \ minted :
              /\ minted' = minted \union {new}
              /\ id' = [id EXCEPT ![p] = new]
              /\ Goto(p, "createKey")
              /\ UNCHANGED dir
    /\ UNCHANGED <<file, cwd, seen, cert, served, before, starts>>

\* One file without the other is an error; no file sends the process to the legacy
\* directory, and from there to generating an identity.
StatKey(p) ==
    /\ pc[p] = "statKey"
    /\ \/ /\ seen[p] # Exists(dir[p], "key")
          /\ Goto(p, "failed")
          /\ UNCHANGED <<dir, id, minted>>
       \/ /\ seen[p] /\ Exists(dir[p], "key")
          /\ Goto(p, "readCert")
          /\ UNCHANGED <<dir, id, minted>>
       \/ /\ ~seen[p] /\ ~Exists(dir[p], "key") /\ dir[p] = "current"
          /\ dir' = [dir EXCEPT ![p] = cwd[p]]
          /\ Goto(p, "statCert")
          /\ UNCHANGED <<id, minted>>
       \/ /\ ~seen[p] /\ ~Exists(dir[p], "key") /\ dir[p] # "current"
          /\ \E new \in New \ minted :
                /\ minted' = minted \union {new}
                /\ id' = [id EXCEPT ![p] = new]
          /\ Goto(p, "createKey")
          /\ UNCHANGED dir
    /\ UNCHANGED <<file, cwd, seen, cert, served, before, starts>>

ReadCert(p) ==
    /\ pc[p] = "readCert"
    /\ cert' = [cert EXCEPT ![p] = file[dir[p]]["cert"]]
    /\ Goto(p, "readKey")
    /\ UNCHANGED <<file, dir, cwd, seen, id, minted, served, before, starts>>

Serve(p, identity) ==
    /\ Goto(p, "serving")
    /\ id' = [id EXCEPT ![p] = identity]
    /\ served' = served \union {identity}

\* A pair in the legacy directory is migrated.  The code reads it once more for
\* that; nobody writes there.
ReadKey(p) ==
    /\ pc[p] = "readKey"
    /\ \/ /\ ~Loads(cert[p], file[dir[p]]["key"])
          /\ Goto(p, "failed")
          /\ UNCHANGED <<id, served>>
       \/ /\ Loads(cert[p], file[dir[p]]["key"]) /\ dir[p] = "current"
          /\ Serve(p, cert[p])
       \/ /\ Loads(cert[p], file[dir[p]]["key"]) /\ dir[p] # "current"
          /\ id' = [id EXCEPT ![p] = cert[p]]
          /\ Goto(p, "createKey")
          /\ UNCHANGED served
    /\ UNCHANGED <<file, dir, cwd, seen, cert, minted, before, starts>>

Put(k, content) == file' = [file EXCEPT !["current"][k] = content]

\* Mutant: O_TRUNC instead of O_EXCL.
CreateTruncating(p, k) ==
    /\ pc[p] = IF k = "key" THEN "createKey" ELSE "createCert"
    /\ Put(k, "torn")
    /\ Goto(p, IF k = "key" THEN "writeKey" ELSE "writeCert")
    /\ UNCHANGED <<dir, cwd, seen, cert, id, minted, served, before, starts>>

\* Mutant: a file that exists is left as it is, and the process goes on.
CreateKeeping(p, k) ==
    /\ pc[p] = IF k = "key" THEN "createKey" ELSE "createCert"
    /\ IF Exists("current", k)
       THEN /\ IF k = "key" THEN Goto(p, "createCert") ELSE Goto(p, "failed")
            /\ UNCHANGED file
       ELSE /\ Put(k, "torn")
            /\ Goto(p, IF k = "key" THEN "writeKey" ELSE "writeCert")
    /\ UNCHANGED <<dir, cwd, seen, cert, id, minted, served, before, starts>>

\* The opening in writeExclusive: with O_EXCL it fails on a file that exists.
Create(p, k) ==
    /\ pc[p] = IF k = "key" THEN "createKey" ELSE "createCert"
    /\ IF Exists("current", k)
       THEN Goto(p, "failed") /\ UNCHANGED file
       ELSE /\ Put(k, "torn")
            /\ Goto(p, IF k = "key" THEN "writeKey" ELSE "writeCert")
    /\ UNCHANGED <<dir, cwd, seen, cert, id, minted, served, before, starts>>

\* The writing in writeExclusive: the key, and then there is the certificate to
\* create.
WriteKey(p) ==
    /\ pc[p] = "writeKey"
    /\ Put("key", id[p])
    /\ Goto(p, "createCert")
    /\ UNCHANGED <<dir, cwd, seen, cert, id, minted, served, before, starts>>

\* A generated identity is read back, a migrated one is served as it was read.
WriteCert(p) ==
    /\ pc[p] = "writeCert"
    /\ Put("cert", id[p])
    /\ IF id[p] \in minted
       THEN /\ dir' = [dir EXCEPT ![p] = "current"]
            /\ Goto(p, "readCert")
            /\ UNCHANGED <<id, served>>
       ELSE Serve(p, id[p]) /\ UNCHANGED dir
    /\ UNCHANGED <<cwd, seen, cert, minted, before, starts>>

\* A write that fails leaves the file as far as it got.
WriteFails(p) ==
    /\ pc[p] \in {"writeKey", "writeCert"}
    /\ Goto(p, "failed")
    /\ UNCHANGED <<file, dir, cwd, seen, cert, id, minted, served, before, starts>>

\* The process is killed, or stopped, or has reported its failure and is gone.
Exit(p) ==
    /\ pc[p] # "down"
    /\ Goto(p, "down")
    /\ UNCHANGED <<file, dir, cwd, seen, cert, id, minted, served, before, starts>>

-----------------------------------------------------------------------------

IdentityNext ==
    \E p \in Processes :
        \/ Start(p) \/ StatCert(p) \/ StatKey(p) \/ ReadCert(p) \/ ReadKey(p)
        \/ Create(p, "key") \/ WriteKey(p) \/ Create(p, "cert") \/ WriteCert(p)
        \/ WriteFails(p) \/ Exit(p)

IdentitySpec == IdentityInit /\ [][IdentityNext]_idVars

-----------------------------------------------------------------------------
(* Correctness *)

Content == {"absent", "torn"} \union Identities

IdentityTypeOK ==
    /\ file \in [Dirs -> [Kinds -> Content]]
    /\ pc \in [Processes -> {"down", "failed", "serving"} \union Reading \union Writing]
    /\ dir \in [Processes -> Dirs]
    /\ cwd \in [Processes -> Legacy]
    /\ seen \in [Processes -> BOOLEAN]
    /\ cert \in [Processes -> Content]
    /\ id \in [Processes -> Identities \union {"absent"}]
    /\ \A p \in Processes : pc[p] \in Writing \union {"serving"} => id[p] \in Identities
    /\ minted \subseteq New
    /\ served \subseteq Identities
    /\ before \in [Processes -> BOOLEAN]
    /\ starts \in 0..MaxStarts

\* "The coordinator has one stable, persisted self-signed identity" (SPEC.md:171):
\* whatever identity a client was shown, by whichever process, is on disk whole.
\* There is room for one, so every client that ever connects is shown the same.
OneIdentity ==
    \A i \in served : \A k \in Kinds : file["current"][k] = i

\* "Partial or corrupt state is always an error and is never replaced
\* automatically" (crypto/tls.go:46): a file that exists changes only while the
\* process that created it is writing it, however that process ended.
NeverReplaced ==
    [][\A d \in Dirs, k \in Kinds :
          Exists(d, k) =>
              \/ file'[d][k] = file[d][k]
              \/ /\ d = "current" /\ file[d][k] = "torn"
                 /\ \E p \in Processes :
                       /\ pc[p] = (IF k = "key" THEN "writeKey" ELSE "writeCert")
                       /\ file'[d][k] = id[p]
                 /\ Cardinality({p \in Processes :
                        pc[p] = IF k = "key" THEN "writeKey" ELSE "writeCert"}) = 1]_idVars

\* A client that trusted the old identity is not shown a generated one, unless one of
\* the coordinators, started yet or not, has a working directory with nothing to
\* migrate.
LegacyKept ==
    served \intersect New # {} =>
        \E p \in Processes : \A k \in Kinds : file[cwd[p]][k] = "absent"

\* Once an identity was served, a coordinator started later serves: no race and no
\* crash of others makes it find the identity partial, corrupt or in its way.
RestartServes ==
    \A p \in Processes : before[p] => pc[p] \notin Writing \union {"failed"}

=============================================================================
