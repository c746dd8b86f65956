---------------------- MODULE CoordinatorIdentityProofs ----------------------
(***************************************************************************)
(* For any number of coordinators, starts, working directories and         *)
(* identities: one identity is served, it is on disk whole, and no file is *)
(* replaced.                                                               *)
(***************************************************************************)
EXTENDS CoordinatorIdentity, FiniteSetTheorems, TLAPS

Current(k) == file["current"][k]

\* A file is torn while somebody writes it, and that is one process only.
Exclusive ==
    /\ \A p \in Processes :
          /\ pc[p] = "writeKey" => Current("key") = "torn"
          /\ pc[p] = "writeCert" => Current("cert") = "torn"
    /\ \A p, q \in Processes :
          /\ pc[p] = "writeKey" /\ pc[q] = "writeKey" => p = q
          /\ pc[p] = "writeCert" /\ pc[q] = "writeCert" => p = q

\* Who creates the certificate has written the key; who has read a certificate finds
\* it still there.
Owned ==
    /\ \A p \in Processes :
          /\ pc[p] \in {"createCert", "writeCert"} => Current("key") = id[p]
          /\ pc[p] = "readKey" /\ dir[p] = "current" /\ cert[p] \in Identities
                => Current("cert") = cert[p]

IdentityInv == Exclusive /\ Owned /\ OneIdentity

-----------------------------------------------------------------------------
(* The types *)

LEMMA IdentityTypeInit == IdentityInit => IdentityTypeOK
BY IdentityAssumption DEF IdentityInit, IdentityTypeOK, Dirs, Kinds, Content, Identities,
                          Reading, Writing

LEMMA IdentityTypeStep == IdentityTypeOK /\ [IdentityNext]_idVars => IdentityTypeOK'
<1> SUFFICES ASSUME IdentityTypeOK, [IdentityNext]_idVars
             PROVE  IdentityTypeOK'
  OBVIOUS
<1> USE IdentityAssumption
    DEF IdentityTypeOK, Dirs, Kinds, Content, Identities, Reading, Writing
<1>1. ASSUME NEW p \in Processes, Start(p)
      PROVE  IdentityTypeOK'
  BY <1>1 DEF Start, Goto
<1>2. ASSUME NEW p \in Processes, StatCert(p)
      PROVE  IdentityTypeOK'
  <2>1. seen' \in [Processes -> BOOLEAN]
    BY <1>2, Zenon DEF StatCert, Exists
  <2>2. QED
    BY <1>2, <2>1 DEF StatCert, Goto
<1>3. ASSUME NEW p \in Processes, StatKey(p)
      PROVE  IdentityTypeOK'
  <2>1. CASE pc' = [pc EXCEPT ![p] = "failed"] /\ UNCHANGED <<dir, id, minted>>
    BY <1>3, <2>1 DEF StatKey
  <2>2. CASE pc' = [pc EXCEPT ![p] = "readCert"] /\ UNCHANGED <<dir, id, minted>>
    BY <1>3, <2>2 DEF StatKey
  <2>3. CASE /\ dir' = [dir EXCEPT ![p] = cwd[p]] /\ UNCHANGED <<id, minted>>
             /\ pc' = [pc EXCEPT ![p] = "statCert"]
    BY <1>3, <2>3 DEF StatKey
  <2>4. ASSUME NEW new \in New, minted' = minted \union {new},
               id' = [id EXCEPT ![p] = new], pc' = [pc EXCEPT ![p] = "createKey"],
               UNCHANGED dir
        PROVE  IdentityTypeOK'
    BY <1>3, <2>4 DEF StatKey
  <2>5. QED
    BY <1>3, <2>1, <2>2, <2>3, <2>4, Zenon DEF StatKey, Goto
<1>4. ASSUME NEW p \in Processes, ReadCert(p)
      PROVE  IdentityTypeOK'
  BY <1>4 DEF ReadCert, Goto
<1>5. ASSUME NEW p \in Processes, ReadKey(p)
      PROVE  IdentityTypeOK'
  BY <1>5 DEF ReadKey, Goto, Serve, Loads
<1>6. ASSUME NEW p \in Processes, Create(p, "key")
      PROVE  IdentityTypeOK'
  <2>1. CASE pc' = [pc EXCEPT ![p] = "failed"] /\ UNCHANGED file
    BY <1>6, <2>1 DEF Create
  <2>2. CASE pc' = [pc EXCEPT ![p] = "writeKey"] /\ Put("key", "torn")
    BY <1>6, <2>2 DEF Create, Put
  <2>3. QED
    BY <1>6, <2>1, <2>2 DEF Create, Goto
<1>7. ASSUME NEW p \in Processes, WriteKey(p)
      PROVE  IdentityTypeOK'
  BY <1>7 DEF WriteKey, Goto, Put
<1>8. ASSUME NEW p \in Processes, Create(p, "cert")
      PROVE  IdentityTypeOK'
  <2>1. CASE pc' = [pc EXCEPT ![p] = "failed"] /\ UNCHANGED file
    BY <1>8, <2>1 DEF Create
  <2>2. CASE pc' = [pc EXCEPT ![p] = "writeCert"] /\ Put("cert", "torn")
    BY <1>8, <2>2 DEF Create, Put
  <2>3. QED
    BY <1>8, <2>1, <2>2 DEF Create, Goto
<1>9. ASSUME NEW p \in Processes, WriteCert(p)
      PROVE  IdentityTypeOK'
  BY <1>9 DEF WriteCert, Goto, Put, Serve
<1>10. ASSUME NEW p \in Processes, WriteFails(p)
      PROVE  IdentityTypeOK'
  BY <1>10 DEF WriteFails, Goto
<1>11. ASSUME NEW p \in Processes, Exit(p)
      PROVE  IdentityTypeOK'
  BY <1>11 DEF Exit, Goto
<1>12. CASE UNCHANGED idVars
  BY <1>12 DEF idVars
<1>13. QED
  BY <1>1, <1>2, <1>3, <1>4, <1>5, <1>6, <1>7, <1>8, <1>9, <1>10, <1>11, <1>12 DEF IdentityNext

\* The types, and that who writes or serves has an identity to write or serve.
THEOREM IdentityTypeCorrect == IdentitySpec => []IdentityTypeOK
BY IdentityTypeInit, IdentityTypeStep, PTL DEF IdentitySpec

-----------------------------------------------------------------------------
(* One identity *)

LEMMA IdentityInvInit == IdentityInit => IdentityInv
BY IdentityAssumption DEF IdentityInit, IdentityInv, Exclusive, Owned, OneIdentity, Current,
                          Dirs, Kinds, Identities

LEMMA IdentityInvStep == IdentityTypeOK /\ IdentityInv /\ [IdentityNext]_idVars => IdentityInv'
<1> SUFFICES ASSUME IdentityTypeOK /\ IdentityInv, [IdentityNext]_idVars
             PROVE  IdentityInv'
  OBVIOUS
<1> USE IdentityAssumption
    DEF IdentityTypeOK, Dirs, Kinds, Content, Identities, Reading, Writing,
        IdentityInv, Exclusive, Owned, OneIdentity, Current
<1>1. ASSUME NEW p \in Processes, Start(p)
      PROVE  IdentityInv'
  BY <1>1 DEF Start, Goto
<1>2. ASSUME NEW p \in Processes, StatCert(p)
      PROVE  IdentityInv'
  BY <1>2 DEF StatCert, Goto
<1>3. ASSUME NEW p \in Processes, StatKey(p)
      PROVE  IdentityInv'
  BY <1>3 DEF StatKey, Goto
<1>4. ASSUME NEW p \in Processes, ReadCert(p)
      PROVE  IdentityInv'
  BY <1>4 DEF ReadCert, Goto
<1>5. ASSUME NEW p \in Processes, ReadKey(p)
      PROVE  IdentityInv'
  BY <1>5 DEF ReadKey, Goto, Serve, Loads
<1>6. ASSUME NEW p \in Processes, Create(p, "key")
      PROVE  IdentityInv'
  <2>1. CASE pc' = [pc EXCEPT ![p] = "failed"] /\ UNCHANGED file
    BY <1>6, <2>1 DEF Create
  <2>2. CASE /\ pc' = [pc EXCEPT ![p] = "writeKey"]
             /\ Put("key", "torn") /\ ~Exists("current", "key")
    <3>1. /\ Current("key") = "absent" /\ Current("key")' = "torn"
          /\ Current("cert")' = Current("cert")
      BY <2>2 DEF Put, Exists
    <3>2. \A q \in Processes : pc[q] \notin {"writeKey", "createCert", "writeCert"}
      BY <3>1
    <3>3. served = {}
      BY <3>1
    <3>4. UNCHANGED <<dir, id, cert, served>>
      BY <1>6 DEF Create
    <3>5. Exclusive'
      BY <2>2, <3>1, <3>2
    <3>6. Owned'
      BY <2>2, <3>1, <3>2, <3>4
    <3>7. QED
      BY <3>3, <3>4, <3>5, <3>6
  <2>3. QED
    BY <1>6, <2>1, <2>2 DEF Create, Goto
<1>7. ASSUME NEW p \in Processes, WriteKey(p)
      PROVE  IdentityInv'
  BY <1>7 DEF WriteKey, Goto, Put
<1>8. ASSUME NEW p \in Processes, Create(p, "cert")
      PROVE  IdentityInv'
  BY <1>8 DEF Create, Goto, Put, Exists
<1>9. ASSUME NEW p \in Processes, WriteCert(p)
      PROVE  IdentityInv'
  <2>1. /\ Current("cert") = "torn" /\ Current("cert")' = id[p] /\ id[p] \in Identities
        /\ Current("key") = id[p] /\ Current("key")' = id[p]
    BY <1>9 DEF WriteCert, Put
  <2>2. /\ \A q \in Processes : q # p => pc'[q] = pc[q] /\ dir'[q] = dir[q]
        /\ pc'[p] \in {"readCert", "serving"} /\ id' = id /\ cert' = cert
    BY <1>9 DEF WriteCert, Goto, Serve
  <2>3. Exclusive'
    <3>1. \A q \in Processes : pc[q] # "writeKey"
      BY <2>1
    <3>2. \A q \in Processes : pc[q] = "writeCert" => q = p
      BY <1>9 DEF WriteCert
    <3>3. \A q \in Processes : pc'[q] \notin {"writeKey", "writeCert"}
      BY <2>2, <3>1, <3>2
    <3>4. QED
      BY <3>3
  <2>4. Owned'
    BY <2>1, <2>2
  <2>5. served' \subseteq {id[p]}
    BY <1>9, <2>1 DEF WriteCert, Serve
  <2>6. QED
    BY <2>1, <2>3, <2>4, <2>5
<1>10. ASSUME NEW p \in Processes, WriteFails(p)
      PROVE  IdentityInv'
  BY <1>10 DEF WriteFails, Goto
<1>11. ASSUME NEW p \in Processes, Exit(p)
      PROVE  IdentityInv'
  BY <1>11 DEF Exit, Goto
<1>12. CASE UNCHANGED idVars
  BY <1>12 DEF idVars
<1>13. QED
  BY <1>1, <1>2, <1>3, <1>4, <1>5, <1>6, <1>7, <1>8, <1>9, <1>10, <1>11, <1>12 DEF IdentityNext

\* Every client that ever connects is shown the same identity, and it is on disk.
THEOREM IdentityIsOne == IdentitySpec => []OneIdentity
<1>1. IdentityInv => OneIdentity
  BY DEF IdentityInv
<1>2. QED
  BY <1>1, IdentityTypeInit, IdentityTypeStep, IdentityInvInit, IdentityInvStep, PTL
     DEF IdentitySpec

-----------------------------------------------------------------------------
(* Restarts *)

\* A process that started after an identity was served finds both files of it: it
\* never turns to the legacy directory, and it never writes.
FindsIt ==
    \A p \in Processes : before[p] = TRUE /\ pc[p] # "down" =>
        /\ served # {} /\ dir[p] = "current"
        /\ pc[p] \in {"statCert", "statKey", "readCert", "readKey", "serving"}
        /\ pc[p] = "statKey" => seen[p] = TRUE
        /\ pc[p] = "readKey" => cert[p] \in served

LEMMA FindsStep ==
    IdentityTypeOK /\ IdentityInv /\ FindsIt /\ [IdentityNext]_idVars => FindsIt'
<1> SUFFICES ASSUME IdentityTypeOK, OneIdentity, FindsIt, [IdentityNext]_idVars
             PROVE  FindsIt'
  BY DEF IdentityInv
<1> USE IdentityAssumption
    DEF IdentityTypeOK, Dirs, Kinds, Content, Identities, Reading, Writing,
        OneIdentity, FindsIt
<1>1. ASSUME NEW p \in Processes, Start(p)
      PROVE  FindsIt'
  BY <1>1 DEF Start, Goto
<1>2. ASSUME NEW p \in Processes, StatCert(p)
      PROVE  FindsIt'
  BY <1>2 DEF StatCert, Goto, Exists
<1>3. ASSUME NEW p \in Processes, StatKey(p)
      PROVE  FindsIt'
  BY <1>3 DEF StatKey, Goto, Exists
<1>4. ASSUME NEW p \in Processes, ReadCert(p)
      PROVE  FindsIt'
  BY <1>4 DEF ReadCert, Goto
<1>5. ASSUME NEW p \in Processes, ReadKey(p)
      PROVE  FindsIt'
  BY <1>5 DEF ReadKey, Goto, Serve, Loads
<1>6. ASSUME NEW p \in Processes, Create(p, "key")
      PROVE  FindsIt'
  BY <1>6 DEF Create, Goto
<1>7. ASSUME NEW p \in Processes, WriteKey(p)
      PROVE  FindsIt'
  BY <1>7 DEF WriteKey, Goto
<1>8. ASSUME NEW p \in Processes, Create(p, "cert")
      PROVE  FindsIt'
  BY <1>8 DEF Create, Goto
<1>9. ASSUME NEW p \in Processes, WriteCert(p)
      PROVE  FindsIt'
  BY <1>9 DEF WriteCert, Goto, Serve
<1>10. ASSUME NEW p \in Processes, WriteFails(p)
      PROVE  FindsIt'
  BY <1>10 DEF WriteFails, Goto
<1>11. ASSUME NEW p \in Processes, Exit(p)
      PROVE  FindsIt'
  BY <1>11 DEF Exit, Goto
<1>12. CASE UNCHANGED idVars
  BY <1>12 DEF idVars
<1>13. QED
  BY <1>1, <1>2, <1>3, <1>4, <1>5, <1>6, <1>7, <1>8, <1>9, <1>10, <1>11, <1>12 DEF IdentityNext

\* Once an identity was served, a coordinator started later serves it, whoever else
\* starts, stops or crashes.
THEOREM RestartsServe == IdentitySpec => []RestartServes
<1>1. IdentityInit => FindsIt
  BY DEF IdentityInit, FindsIt
<1>2. IdentityTypeOK /\ FindsIt => RestartServes
  BY DEF IdentityTypeOK, FindsIt, RestartServes, Writing
<1>3. QED
  BY <1>1, <1>2, IdentityTypeInit, IdentityTypeStep, IdentityInvInit, IdentityInvStep,
     FindsStep, PTL DEF IdentitySpec

-----------------------------------------------------------------------------
(* Nothing is replaced *)

\* What NeverReplaced says of a step.
Kept ==
    \A d \in Dirs, k \in Kinds :
        Exists(d, k) =>
            \/ file'[d][k] = file[d][k]
            \/ /\ d = "current" /\ file[d][k] = "torn"
               /\ \E p \in Processes :
                     /\ pc[p] = (IF k = "key" THEN "writeKey" ELSE "writeCert")
                     /\ file'[d][k] = id[p]
               /\ Cardinality({p \in Processes :
                      pc[p] = IF k = "key" THEN "writeKey" ELSE "writeCert"}) = 1

LEMMA StepKeeps == IdentityTypeOK /\ IdentityInv /\ [IdentityNext]_idVars => Kept
<1> SUFFICES ASSUME IdentityTypeOK, IdentityInv, [IdentityNext]_idVars
             PROVE  Kept
  OBVIOUS
<1> USE IdentityAssumption
<1>1. ASSUME NEW k \in Kinds, NEW content, NEW p \in Processes, Put(k, content),
             \/ ~Exists("current", k)
             \/ /\ content = id[p]
                /\ pc[p] = (IF k = "key" THEN "writeKey" ELSE "writeCert")
      PROVE  Kept
  <2>1. \A d \in Dirs, j \in Kinds :
            d # "current" \/ j # k => file'[d][j] = file[d][j]
    BY <1>1 DEF Put, IdentityTypeOK
  <2>2. CASE ~Exists("current", k)
    BY <2>1, <2>2 DEF Kept
  <2>3. CASE content = id[p] /\ pc[p] = (IF k = "key" THEN "writeKey" ELSE "writeCert")
    <3>1. file'["current"][k] = id[p]
      BY <1>1, <2>3 DEF Put, IdentityTypeOK, Dirs
    <3>2. file["current"][k] = "torn"
      BY <2>3 DEF IdentityInv, Exclusive, Current, Kinds
    <3>3. {q \in Processes : pc[q] = IF k = "key" THEN "writeKey" ELSE "writeCert"} = {p}
      BY <2>3 DEF IdentityInv, Exclusive, Kinds
    <3>4. Cardinality({p}) = 1
      BY FS_Singleton
    <3>5. QED
      BY <2>1, <2>3, <3>1, <3>2, <3>3, <3>4 DEF Kept
  <2>4. QED
    BY <1>1, <2>2, <2>3
<1>2. ASSUME UNCHANGED file PROVE Kept
  BY <1>2 DEF Kept
<1>3. ASSUME NEW p \in Processes, NEW k \in Kinds, Create(p, k) PROVE Kept
  BY <1>1, <1>2, <1>3 DEF Create
<1>4. ASSUME NEW p \in Processes, WriteKey(p) PROVE Kept
  BY <1>1, <1>4 DEF WriteKey, Kinds
<1>5. ASSUME NEW p \in Processes, WriteCert(p) PROVE Kept
  BY <1>1, <1>5 DEF WriteCert, Kinds
<1>6. ASSUME NEW p \in Processes,
             \/ Start(p) \/ StatCert(p) \/ StatKey(p) \/ ReadCert(p) \/ ReadKey(p)
             \/ WriteFails(p) \/ Exit(p)
      PROVE  Kept
  BY <1>2, <1>6 DEF Start, StatCert, StatKey, ReadCert, ReadKey, WriteFails, Exit
<1>7. CASE UNCHANGED idVars
  BY <1>2, <1>7 DEF idVars
<1>8. QED
  BY <1>3, <1>4, <1>5, <1>6, <1>7 DEF IdentityNext, Kinds

\* A file that exists changes only while the one process that created it writes it.
THEOREM NothingReplaced == IdentitySpec => NeverReplaced
<1>1. IdentityTypeOK /\ IdentityInv /\ [IdentityNext]_idVars => [Kept]_idVars
  BY StepKeeps
<1>2. IdentitySpec => [][Kept]_idVars
  BY <1>1, IdentityTypeInit, IdentityTypeStep, IdentityInvInit, IdentityInvStep, PTL
     DEF IdentitySpec
<1>3. QED
  BY <1>2 DEF NeverReplaced, Kept

-----------------------------------------------------------------------------
(* What older versions left *)

\* Some coordinator was started where there is nothing to migrate.
NothingToMigrate == \E p \in Processes : \A k \in Kinds : file[cwd[p]][k] = "absent"

\* A generated identity is known only once one was generated, and one is generated only
\* by a process that found neither file in its legacy directory.
LegacyInv ==
    /\ \A p \in Processes :
          /\ dir[p] \in {"current", cwd[p]}
          /\ pc[p] = "statKey" /\ seen[p] = FALSE /\ dir[p] # "current"
                => file[dir[p]]["cert"] = "absent"
          /\ cert[p] \in New => cert[p] \in minted
          /\ id[p] \in New => id[p] \in minted
    /\ \A d \in Legacy, k \in Kinds : file[d][k] \notin New
    /\ \A k \in Kinds : Current(k) \in New => Current(k) \in minted
    /\ served \intersect New \subseteq minted
    /\ minted # {} => NothingToMigrate

LEMMA LegacyInit == IdentityInit => LegacyInv
BY IdentityAssumption
   DEF IdentityInit, LegacyInv, Current, Dirs, Kinds, Identities

LEMMA LegacyStep ==
    IdentityTypeOK /\ LegacyInv /\ [IdentityNext]_idVars => LegacyInv'
<1> SUFFICES ASSUME IdentityTypeOK, LegacyInv, [IdentityNext]_idVars
             PROVE  LegacyInv'
  OBVIOUS
<1> USE IdentityAssumption
    DEF IdentityTypeOK, Dirs, Kinds, Content, Identities, Reading, Writing,
        LegacyInv, NothingToMigrate, Current
<1>1. ASSUME NEW p \in Processes, Start(p)
      PROVE  LegacyInv'
  BY <1>1 DEF Start, Goto
<1>2. ASSUME NEW p \in Processes, StatCert(p)
      PROVE  LegacyInv'
  <2>1. seen' = [seen EXCEPT ![p] = Exists(dir[p], "cert")]
    BY <1>2 DEF StatCert
  <2>2. seen'[p] = FALSE => file[dir[p]]["cert"] = "absent"
    <3>1. seen \in [Processes -> BOOLEAN]
      OBVIOUS
    <3>2. seen'[p] = Exists(dir[p], "cert")
      BY <2>1, <3>1, Zenon
    <3>3. Exists(dir[p], "cert") = FALSE => file[dir[p]]["cert"] = "absent"
      BY DEF Exists
    <3> QED BY <3>2, <3>3, Zenon
  <2>3. \A q \in Processes : q # p => seen'[q] = seen[q] /\ pc'[q] = pc[q]
    BY <1>2, <2>1 DEF StatCert, Goto
  <2>4. UNCHANGED <<file, dir, cwd, cert, id, minted, served>>
    BY <1>2 DEF StatCert
  <2> QED BY <2>2, <2>3, <2>4
<1>3. ASSUME NEW p \in Processes, StatKey(p)
      PROVE  LegacyInv'
  BY <1>3 DEF StatKey, Goto, Exists
<1>4. ASSUME NEW p \in Processes, ReadCert(p)
      PROVE  LegacyInv'
  BY <1>4 DEF ReadCert, Goto
<1>5. ASSUME NEW p \in Processes, ReadKey(p)
      PROVE  LegacyInv'
  BY <1>5 DEF ReadKey, Goto, Serve, Loads
<1>6. ASSUME NEW p \in Processes, NEW k \in Kinds, Create(p, k)
      PROVE  LegacyInv'
  <2>1. file' = file \/ file' = [file EXCEPT !["current"][k] = "torn"]
    BY <1>6 DEF Create, Put
  <2>2. \A d \in Legacy : file'[d] = file[d]
    BY <2>1
  <2>3. \A j \in Kinds : file'["current"][j] \in {file["current"][j], "torn"}
    <3>1. "current" \in DOMAIN file /\ file["current"] \in [Kinds -> Content]
      OBVIOUS
    <3>2. \/ file'["current"] = file["current"]
          \/ file'["current"] = [file["current"] EXCEPT ![k] = "torn"]
      BY <2>1, <3>1
    <3> QED BY <3>1, <3>2
  <2>4. \A q \in Processes : pc'[q] = pc[q] \/ pc'[q] \in {"failed", "writeKey", "writeCert"}
    BY <1>6 DEF Create, Goto
  <2>5. UNCHANGED <<dir, cwd, seen, cert, id, minted, served>>
    BY <1>6 DEF Create
  <2>6. "torn" \notin New
    OBVIOUS
  <2> QED BY <2>2, <2>3, <2>4, <2>5, <2>6
<1>7. ASSUME NEW p \in Processes, WriteKey(p)
      PROVE  LegacyInv'
  BY <1>7 DEF WriteKey, Goto, Put
<1>8. ASSUME NEW p \in Processes, WriteCert(p)
      PROVE  LegacyInv'
  BY <1>8 DEF WriteCert, Goto, Put, Serve
<1>9. ASSUME NEW p \in Processes, WriteFails(p) \/ Exit(p)
      PROVE  LegacyInv'
  BY <1>9 DEF WriteFails, Exit, Goto
<1>10. CASE UNCHANGED idVars
  BY <1>10 DEF idVars
<1>11. QED
  BY <1>1, <1>2, <1>3, <1>4, <1>5, <1>6, <1>7, <1>8, <1>9, <1>10 DEF IdentityNext

\* No client is shown a generated identity when every coordinator has in its working
\* directory what an older version left, a file of the pair at least.
THEOREM OldIdentityKept == IdentitySpec => []LegacyKept
<1>1. LegacyInv => LegacyKept
  BY DEF LegacyInv, LegacyKept, NothingToMigrate
<1>2. QED
  BY <1>1, IdentityTypeInit, IdentityTypeStep, LegacyInit, LegacyStep, PTL
     DEF IdentitySpec

=============================================================================
