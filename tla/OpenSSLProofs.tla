--------------------------- MODULE OpenSSLProofs ---------------------------
(***************************************************************************)
(* Proofs about the layer between the library and OpenSSL: the checks of   *)
(* return values, wrapper by wrapper, the engine that any number of        *)
(* HsmEngine objects share, and the ownership of native objects.           *)
(***************************************************************************)
EXTENDS MCOpenSSL, FiniteSetTheorems, SequenceTheorems, TLAPS

(***************************************************************************)
(* The engine.  The inductive invariant counts: every live object has a    *)
(* functional reference and two structural ones, and every object that is  *)
(* under construction a structural one.  A second one says how far an      *)
(* object has set the engine's path and PIN.                               *)
(***************************************************************************)

Phases == {"none", "MODULE_PATH", "PIN", "init", "live"}

EngineIInv ==
    /\ ePhase \in [Objects -> Phases]
    /\ eFunctional = Cardinality(Engine!Live)
    /\ eStructural = Cardinality(Engine!Holding) + Cardinality(Engine!Live)
    /\ eStarted <=> eFunctional > 0
    /\ eLoads \subseteq {"key"}
    /\ eMade \in 0 .. MaxMade

SettingsIInv ==
    /\ ePhase \in [Objects -> Phases]
    /\ eSettings \in [Engine!Commands -> SUBSET Objects]
    /\ \A o \in Objects :
          /\ ePhase[o] \in {"PIN", "init", "live"} => eSettings["MODULE_PATH"] # {}
          /\ ePhase[o] \in {"init", "live"} => eSettings["PIN"] # {}

(* The finite sets of the engine's module are those of FiniteSets. *)
LEMMA SameFiniteSets ==
    ASSUME NEW S
    PROVE  /\ Engine!IsFiniteSet(S) = IsFiniteSet(S)
           /\ Engine!Cardinality(S) = Cardinality(S)
  <1>1. Engine!IsFiniteSet(S) = IsFiniteSet(S)
    BY DEF Engine!IsFiniteSet, IsFiniteSet
  <1>2. Engine!Cardinality(S) = Cardinality(S)
    BY DEF Engine!Cardinality, Cardinality
  <1> QED
    BY <1>1, <1>2

(* The objects alive are some of those that hold a reference, and these    *)
(* are finitely many.                                                      *)
LEMMA LiveAndHolding ==
    /\ IsFiniteSet(Engine!Live) /\ IsFiniteSet(Engine!Holding)
    /\ Cardinality(Engine!Live) \in Nat /\ Cardinality(Engine!Holding) \in Nat
    /\ Cardinality(Engine!Live) <= Cardinality(Engine!Holding)
    /\ Cardinality(Engine!Holding) <= Cardinality(Objects)
    /\ Cardinality(Objects) \in Nat
  <1>1. IsFiniteSet(Objects)
    BY LayerAssumption, SameFiniteSets DEF Engine!EngineAssumption
  <1>2. Engine!Live \subseteq Engine!Holding /\ Engine!Holding \subseteq Objects
    BY DEF Engine!Live, Engine!Holding
  <1>3. IsFiniteSet(Engine!Holding) /\ IsFiniteSet(Engine!Live)
    BY <1>1, <1>2, FS_Subset
  <1> QED
    BY <1>1, <1>2, <1>3, FS_Subset, FS_CardinalityType

(* The invariant implies what is checked of the engine. *)
LEMMA EngineIInvSuffices ==
    ASSUME EngineIInv, SettingsIInv
    PROVE  EngineIsSharedSoundly
  <1> DEFINE l == Cardinality(Engine!Live)
             h == Cardinality(Engine!Holding)
  <1>1. /\ l \in Nat /\ h \in Nat /\ l <= h /\ h <= Cardinality(Objects)
        /\ Cardinality(Objects) \in Nat
        /\ IsFiniteSet(Engine!Live) /\ IsFiniteSet(Engine!Holding)
    BY LiveAndHolding
  <1>2. Engine!Live # {} => l # 0
    BY <1>1, FS_EmptySet
  <1>3. Engine!Holding = {} => h = 0
    BY FS_EmptySet
  <1>4. eFunctional = l /\ eStructural = h + l
    BY DEF EngineIInv
  <1> HIDE DEF l, h
  <1>5. Engine!TypeOK
    <2>1. eStructural \in 0 .. (2 * Cardinality(Objects)) /\ eFunctional \in 0 .. eStructural
      BY <1>1, <1>4
    <2> QED
      BY <2>1, SameFiniteSets DEF EngineIInv, SettingsIInv, Engine!TypeOK, Phases
  <1>6. Engine!LiveObjectsCanLoad
    <2>1. "not initialised" \notin eLoads
      BY DEF EngineIInv
    <2>2. Engine!Live # {} => eStarted
      BY <1>1, <1>2, <1>4 DEF EngineIInv
    <2> QED
      BY <2>1, <2>2 DEF Engine!LiveObjectsCanLoad
  <1>7. Engine!EngineIsReleased
    <2> SUFFICES ASSUME Engine!Holding = {}
                 PROVE  eStructural = 0 /\ eFunctional = 0 /\ ~eStarted
      BY DEF Engine!EngineIsReleased
    <2>1. h = 0 /\ l = 0
      BY <1>1, <1>3
    <2>2. eStructural = 0 /\ eFunctional = 0
      BY <1>4, <2>1
    <2> QED
      BY <2>2 DEF EngineIInv
  <1>8. Engine!StartedWithSettings
    <2> SUFFICES ASSUME eStarted PROVE \A command \in Engine!Commands : eSettings[command] # {}
      BY DEF Engine!StartedWithSettings
    <2>1. Engine!Live # {}
      <3>1. l > 0
        BY <1>4 DEF EngineIInv
      <3>2. Engine!Live = {} => l = 0
        BY FS_EmptySet DEF l
      <3> QED
        BY <3>1, <3>2
    <2>2. PICK o \in Objects : ePhase[o] = "live"
      BY <2>1 DEF Engine!Live
    <2> QED
      BY <2>2 DEF SettingsIInv, Engine!Commands
  <1> QED
    BY <1>5, <1>6, <1>7, <1>8 DEF EngineIsSharedSoundly

(* What a step of one object does to the sets that are counted. *)
LEMMA CountsFollow ==
    ASSUME EngineIInv, NEW o \in Objects, NEW to \in Phases, Engine!Goes(o, to)
    PROVE  /\ ePhase' \in [Objects -> Phases]
           /\ Cardinality(Engine!Live') = Cardinality(Engine!Live)
                - (IF ePhase[o] = "live" THEN 1 ELSE 0) + (IF to = "live" THEN 1 ELSE 0)
           /\ Cardinality(Engine!Holding') = Cardinality(Engine!Holding)
                - (IF ePhase[o] # "none" THEN 1 ELSE 0) + (IF to # "none" THEN 1 ELSE 0)
  <1> DEFINE L == Engine!Live \ {o}
             H == Engine!Holding \ {o}
  <1>1. /\ IsFiniteSet(Engine!Live) /\ IsFiniteSet(Engine!Holding)
        /\ Cardinality(Engine!Live) \in Nat /\ Cardinality(Engine!Holding) \in Nat
    BY LiveAndHolding
  <1>2. ePhase' = [ePhase EXCEPT ![o] = to] /\ ePhase \in [Objects -> Phases]
    BY DEF Engine!Goes, EngineIInv
  <1>3. /\ Engine!Live' = IF to = "live" THEN L \union {o} ELSE L
        /\ Engine!Holding' = IF to # "none" THEN H \union {o} ELSE H
    BY <1>2 DEF Engine!Live, Engine!Holding
  <1>4. /\ o \in Engine!Live <=> ePhase[o] = "live"
        /\ o \in Engine!Holding <=> ePhase[o] # "none"
    BY DEF Engine!Live, Engine!Holding
  <1>5. /\ IsFiniteSet(L) /\ Cardinality(L) \in Nat
        /\ Cardinality(L) = Cardinality(Engine!Live) - (IF ePhase[o] = "live" THEN 1 ELSE 0)
    <2>1. /\ IsFiniteSet(L)
          /\ Cardinality(L) = IF o \in Engine!Live THEN Cardinality(Engine!Live) - 1
                              ELSE Cardinality(Engine!Live)
      BY <1>1, FS_RemoveElement
    <2> HIDE DEF L
    <2> QED
      BY <1>1, <1>4, <2>1, FS_CardinalityType
  <1>6. /\ IsFiniteSet(H) /\ Cardinality(H) \in Nat
        /\ Cardinality(H) = Cardinality(Engine!Holding) - (IF ePhase[o] # "none" THEN 1 ELSE 0)
    <2>1. /\ IsFiniteSet(H)
          /\ Cardinality(H) = IF o \in Engine!Holding THEN Cardinality(Engine!Holding) - 1
                              ELSE Cardinality(Engine!Holding)
      BY <1>1, FS_RemoveElement
    <2> HIDE DEF H
    <2> QED
      BY <1>1, <1>4, <2>1, FS_CardinalityType
  <1>7. /\ Cardinality(L \union {o}) = Cardinality(L) + 1
        /\ Cardinality(H \union {o}) = Cardinality(H) + 1
    <2>1. o \notin L /\ o \notin H
      OBVIOUS
    <2> HIDE DEF L, H
    <2> QED
      BY <1>5, <1>6, <2>1, FS_AddElement
  <1>8. ePhase' \in [Objects -> Phases]
    BY <1>2
  <1> HIDE DEF L, H
  <1>9. Cardinality(Engine!Live') = Cardinality(L) + (IF to = "live" THEN 1 ELSE 0)
    BY <1>3, <1>5, <1>7
  <1>10. Cardinality(Engine!Holding') = Cardinality(H) + (IF to # "none" THEN 1 ELSE 0)
    BY <1>3, <1>6, <1>7
  <1> QED
    BY <1>1, <1>5, <1>6, <1>8, <1>9, <1>10

(* The invariant of the engine is inductive. *)
LEMMA EngineInvariance == Engine!Spec => []EngineIInv
  <1>0. MaxMade \in Nat
    BY LayerAssumption DEF Engine!EngineAssumption
  <1>1. Engine!Init => EngineIInv
    <2> SUFFICES ASSUME Engine!Init PROVE EngineIInv
      OBVIOUS
    <2>1. Engine!Live = {} /\ Engine!Holding = {}
      BY DEF Engine!Init, Engine!Live, Engine!Holding
    <2>2. Cardinality(Engine!Live) = 0 /\ Cardinality(Engine!Holding) = 0
      BY <2>1, FS_EmptySet
    <2> QED
      BY <1>0, <2>2 DEF Engine!Init, EngineIInv, Phases
  <1>2. EngineIInv /\ [Engine!Next]_(Engine!vars) => EngineIInv'
    <2> SUFFICES ASSUME EngineIInv, [Engine!Next]_(Engine!vars) PROVE EngineIInv'
      OBVIOUS
    <2> DEFINE l == Cardinality(Engine!Live)
               h == Cardinality(Engine!Holding)
    <2>1. /\ l \in Nat /\ h \in Nat /\ eFunctional = l /\ eStructural = h + l
          /\ (eStarted <=> eFunctional > 0) /\ eMade \in 0 .. MaxMade /\ eLoads \subseteq {"key"}
          /\ ePhase \in [Objects -> Phases]
      BY LiveAndHolding DEF EngineIInv
    <2>2. ASSUME NEW o \in Objects, ePhase[o] = "live" PROVE l > 0
      <3>1. o \in Engine!Live
        BY <2>2 DEF Engine!Live
      <3> QED
        BY <3>1, LiveAndHolding, FS_EmptySet
    <2>3. ASSUME NEW o \in Objects, Engine!FindById(o) PROVE EngineIInv'
      <3>1. Cardinality(Engine!Live') = l /\ Cardinality(Engine!Holding') = h + 1
            /\ ePhase' \in [Objects -> Phases]
        BY <2>1, <2>3, CountsFollow DEF Engine!FindById, Phases
      <3> HIDE DEF l, h
      <3> QED
        BY <1>0, <2>1, <2>3, <3>1 DEF Engine!FindById, EngineIInv
    <2>4. ASSUME NEW o \in Objects, Engine!Control(o) PROVE EngineIInv'
      <3>1. PICK to \in {"PIN", "init"} : Engine!Goes(o, to)
        BY <2>4 DEF Engine!Control
      <3>2. Cardinality(Engine!Live') = l /\ Cardinality(Engine!Holding') = h
            /\ ePhase' \in [Objects -> Phases]
        BY <2>1, <2>4, <3>1, CountsFollow DEF Engine!Control, Engine!Commands, Phases
      <3> HIDE DEF l, h
      <3> QED
        BY <2>1, <2>4, <3>2 DEF Engine!Control, EngineIInv
    <2>5. ASSUME NEW o \in Objects, Engine!InitEngine(o) PROVE EngineIInv'
      <3>1. Cardinality(Engine!Live') = l + 1 /\ Cardinality(Engine!Holding') = h
            /\ ePhase' \in [Objects -> Phases]
        BY <2>1, <2>5, CountsFollow DEF Engine!InitEngine, Phases
      <3> HIDE DEF l, h
      <3> QED
        BY <2>1, <2>5, <3>1 DEF Engine!InitEngine, EngineIInv
    <2>6. ASSUME NEW o \in Objects, Engine!ConstructorFails(o) PROVE EngineIInv'
      <3>1. Cardinality(Engine!Live') = l /\ Cardinality(Engine!Holding') = h - 1
            /\ ePhase' \in [Objects -> Phases]
        BY <2>1, <2>6, CountsFollow DEF Engine!ConstructorFails, Phases
      <3> HIDE DEF l, h
      <3> QED
        BY <2>1, <2>6, <3>1 DEF Engine!ConstructorFails, EngineIInv
    <2>7. ASSUME NEW o \in Objects, Engine!LoadKey(o) PROVE EngineIInv'
      <3>1. eStarted
        BY <2>1, <2>2, <2>7 DEF Engine!LoadKey
      <3>2. eLoads' \subseteq {"key"}
        BY <2>1, <2>7, <3>1 DEF Engine!LoadKey
      <3> QED
        BY <2>7, <3>2 DEF Engine!LoadKey, EngineIInv, Engine!Live, Engine!Holding
    <2>8. ASSUME NEW o \in Objects, Engine!Destroy(o) PROVE EngineIInv'
      <3>1. Cardinality(Engine!Live') = l - 1 /\ Cardinality(Engine!Holding') = h - 1
            /\ ePhase' \in [Objects -> Phases]
        BY <2>1, <2>8, CountsFollow DEF Engine!Destroy, Phases
      <3> HIDE DEF l, h
      <3> QED
        <4>1. /\ eFunctional' = eFunctional - 1 /\ eStructural' = eStructural - 2
              /\ eStarted' = (eFunctional > 1) /\ UNCHANGED <<eLoads, eMade>>
          BY <2>8 DEF Engine!Destroy
        <4>2. (eFunctional > 1) <=> (eFunctional' > 0)
          BY <2>1, <4>1
        <4>3. eStarted' <=> eFunctional' > 0
          BY <4>1, <4>2, Zenon
        <4>4. eFunctional' = l - 1 /\ eStructural' = (h - 1) + (l - 1)
          BY <2>1, <4>1
        <4> QED
          BY <2>1, <3>1, <4>1, <4>3, <4>4 DEF EngineIInv
    <2>9. ASSUME NEW o \in Objects, Engine!DestroyFails(o) PROVE EngineIInv'
      BY <2>9 DEF Engine!DestroyFails, EngineIInv, Engine!Live, Engine!Holding
    <2>10. CASE Engine!Finished \/ UNCHANGED Engine!vars
      <3>1. UNCHANGED Engine!vars
        BY <2>10 DEF Engine!Finished
      <3> QED
        BY <3>1 DEF Engine!vars, EngineIInv, Engine!Live, Engine!Holding
    <2> QED
      BY <2>3, <2>4, <2>5, <2>6, <2>7, <2>8, <2>9, <2>10 DEF Engine!Next
  <1> QED
    BY <1>1, <1>2, PTL DEF Engine!Spec

(* The invariant of the settings is inductive: no step takes one back. *)
LEMMA SettingsInvariance == Engine!Spec => []SettingsIInv
  <1>1. Engine!Init => SettingsIInv
    BY DEF Engine!Init, SettingsIInv, Phases
  <1>2. SettingsIInv /\ [Engine!Next]_(Engine!vars) => SettingsIInv'
    <2> SUFFICES ASSUME SettingsIInv, [Engine!Next]_(Engine!vars) PROVE SettingsIInv'
      OBVIOUS
    <2>1. ASSUME NEW o \in Objects, Engine!Control(o) PROVE SettingsIInv'
      <3>1. /\ ePhase[o] \in Engine!Commands
            /\ ePhase' = [ePhase EXCEPT ![o] = IF ePhase[o] = "MODULE_PATH" THEN "PIN" ELSE "init"]
            /\ eSettings' = [eSettings EXCEPT ![ePhase[o]] = {o}]
        BY <2>1 DEF Engine!Control, Engine!Goes
      <3>2. /\ ePhase' \in [Objects -> Phases]
            /\ eSettings' \in [Engine!Commands -> SUBSET Objects]
        BY <3>1 DEF SettingsIInv, Phases
      <3>3. \A command \in Engine!Commands :
               eSettings[command] # {} \/ command = ePhase[o] => eSettings'[command] # {}
        BY <3>1 DEF SettingsIInv
      <3>4. "MODULE_PATH" \in Engine!Commands /\ "PIN" \in Engine!Commands
        BY DEF Engine!Commands
      <3>5. ASSUME NEW p \in Objects
            PROVE  /\ ePhase'[p] \in {"PIN", "init", "live"} => eSettings'["MODULE_PATH"] # {}
                   /\ ePhase'[p] \in {"init", "live"} => eSettings'["PIN"] # {}
        <4>1. CASE p = o
          BY <3>1, <3>3, <3>4, <4>1 DEF SettingsIInv, Engine!Commands
        <4>2. CASE p # o
          <5>1. ePhase'[p] = ePhase[p]
            BY <3>1, <4>2 DEF SettingsIInv
          <5> QED
            BY <3>3, <3>4, <5>1 DEF SettingsIInv
        <4> QED
          BY <4>1, <4>2
      <3> QED
        BY <3>2, <3>5 DEF SettingsIInv
    <2>2. ASSUME NEW o \in Objects, NEW to \in {"MODULE_PATH", "none"},
                 Engine!Goes(o, to), UNCHANGED eSettings
          PROVE  SettingsIInv'
      BY <2>2 DEF Engine!Goes, SettingsIInv, Phases
    <2>3. ASSUME NEW o \in Objects, Engine!InitEngine(o) PROVE SettingsIInv'
      BY <2>3 DEF Engine!InitEngine, Engine!Goes, SettingsIInv, Phases
    <2>4. CASE UNCHANGED <<ePhase, eSettings>>
      BY <2>4 DEF SettingsIInv
    <2>5. ASSUME NEW o \in Objects,
                 Engine!FindById(o) \/ Engine!ConstructorFails(o) \/ Engine!Destroy(o)
          PROVE  SettingsIInv'
      BY <2>2, <2>5 DEF Engine!FindById, Engine!ConstructorFails, Engine!Destroy
    <2>6. ASSUME NEW o \in Objects, Engine!LoadKey(o) \/ Engine!DestroyFails(o)
          PROVE  SettingsIInv'
      BY <2>4, <2>6 DEF Engine!LoadKey, Engine!DestroyFails
    <2>7. CASE Engine!Finished \/ UNCHANGED Engine!vars
      BY <2>4, <2>7 DEF Engine!Finished, Engine!vars
    <2> QED
      BY <2>1, <2>3, <2>5, <2>6, <2>7 DEF Engine!Next
  <1> QED
    BY <1>1, <1>2, PTL DEF Engine!Spec
-----------------------------------------------------------------------------
(***************************************************************************)
(* The return checks.  Whether a policy fits the OpenSSL function it is    *)
(* used for is a fact about the table of wrappers, proved part by part;    *)
(* the inductive invariant says that the calls a wrapper still has to make *)
(* are from its row, and that a call that failed has thrown.               *)
(***************************************************************************)

(* The policy accepts every value that means success and, but for the two  *)
(* curve settings, refuses every value that means failure.                 *)
Judges(w, policy) ==
    /\ policy \in Policies
    /\ \A rv \in Successes(w, policy) : ReturnValueIsOk(policy, rv)
    /\ w \notin CurveSettings => \A rv \in Failures(w, policy) : ~ReturnValueIsOk(policy, rv)

(* A row of the table whose policies all judge rightly. *)
GoodRow(w, row) == row \in Seq(Policies) /\ \A i \in 1 .. Len(row) : Judges(w, row[i])

GoodTable(table) == \A w \in DOMAIN table : GoodRow(w, table[w])

(* A check for nullptr is right for every function that returns a pointer. *)
LEMMA PtrJudges == ASSUME NEW w PROVE Judges(w, "Ptr")
BY DEF Judges, Policies, Successes, Failures, ReturnValueIsOk, IsNotNullptr

(* The check for one is right where zero and negative values are failures  *)
(* and one is the only success.                                            *)
LEMMA IsOneJudges ==
    ASSUME NEW w, w \notin CountFunctions, w \notin ZeroIsAnAnswer, w \notin MinusOneIsAnAnswer
    PROVE  Judges(w, "IsOne")
  <1>1. Successes(w, "IsOne") = {1}
    BY DEF Successes
  <1>2. Failures(w, "IsOne") \subseteq {0, -1, -2}
    BY DEF Failures
  <1> QED
    BY <1>1, <1>2 DEF Judges, Policies, ReturnValueIsOk, IsOne

(* The check for a positive value is right also where counts are returned. *)
LEMMA IsPositiveJudges ==
    ASSUME NEW w, w \notin ZeroIsAnAnswer, w \notin MinusOneIsAnAnswer
    PROVE  Judges(w, "IsPositive") /\ Judges(w, "HasLength")
  <1>1. /\ Successes(w, "IsPositive") \subseteq {1, 2}
        /\ Successes(w, "HasLength") \subseteq {1, 2}
    BY DEF Successes
  <1>2. /\ Failures(w, "IsPositive") \subseteq {0, -1, -2}
        /\ Failures(w, "HasLength") \subseteq {0, -1, -2}
    BY DEF Failures
  <1> QED
    BY <1>1, <1>2 DEF Judges, Policies, ReturnValueIsOk, IsPositive

(* The check for a value that is not negative is right where zero is an    *)
(* answer or is never returned.                                            *)
LEMMA IsNonNegativeJudges ==
    ASSUME NEW w, w \notin MinusOneIsAnAnswer, w \notin CannotFail, w \notin OnlyZeroFails,
           w \in ZeroIsAnAnswer \/ w \in NeverReturnsZero \/ w \in CurveSettings
    PROVE  Judges(w, "IsNonNegative")
  <1>1. Successes(w, "IsNonNegative") \subseteq {0, 1, 2}
    BY DEF Successes
  <1>2. ASSUME w \notin CurveSettings PROVE Failures(w, "IsNonNegative") \subseteq {-1, -2}
    <2>1. CASE w \in NeverReturnsZero
      BY <2>1 DEF Failures
    <2>2. CASE w \in ZeroIsAnAnswer
      <3>1. 0 \in Successes(w, "IsNonNegative")
        BY <2>2 DEF Successes
      <3> QED
        BY <3>1 DEF Failures
    <2> QED
      BY <1>2, <2>1, <2>2
  <1>3. \A rv \in Successes(w, "IsNonNegative") : ReturnValueIsOk("IsNonNegative", rv)
    BY <1>1 DEF ReturnValueIsOk, IsNonNegative
  <1>4. \A rv \in {-1, -2} : ~ReturnValueIsOk("IsNonNegative", rv)
    BY DEF ReturnValueIsOk, IsNonNegative
  <1> QED
    BY <1>2, <1>3, <1>4 DEF Judges, Policies

(* The checks written by hand are right for their one function or family. *)
LEMMA ByHandJudges ==
    /\ Judges("EVP_PKEY_cmp", "PkeyCmp")
    /\ \A w \in {"BIO_gets", "BIO_puts", "BIO_write", "BIO_read"} : Judges(w, "Bio")
    /\ Judges("X509_verify_cert", "VerifyCert")
    /\ Judges("EVP_CIPHER_CTX_iv_length", "HasIV")
    /\ Judges("X509_check_ca", "Unchecked")
    /\ Judges("RSA_size", "Unchecked")
  <1> USE DEF Policies, ReturnValueIsOk, CountFunctions, ZeroIsAnAnswer,
              MinusOneIsAnAnswer, NeverReturnsZero, OnlyZeroFails, CannotFail
  <1>1. Judges("EVP_PKEY_cmp", "PkeyCmp")
    <2>1. /\ Successes("EVP_PKEY_cmp", "PkeyCmp") = {1, 0, -1}
          /\ Failures("EVP_PKEY_cmp", "PkeyCmp") = {-2}
      BY DEF Successes, Failures
    <2> QED
      BY <2>1 DEF Judges
  <1>2. ASSUME NEW w \in {"BIO_gets", "BIO_puts", "BIO_write", "BIO_read"}
        PROVE  Judges(w, "Bio")
    <2>1. Successes(w, "Bio") = {1, 2, 0, -1} /\ Failures(w, "Bio") = {-2}
      BY DEF Successes, Failures
    <2> QED
      BY <2>1 DEF Judges
  <1>3. Judges("X509_verify_cert", "VerifyCert")
    <2>1. /\ Successes("X509_verify_cert", "VerifyCert") = {1}
          /\ Failures("X509_verify_cert", "VerifyCert") = {0, -1, -2}
      BY DEF Successes, Failures
    <2> QED
      BY <2>1 DEF Judges
  <1>4. Judges("EVP_CIPHER_CTX_iv_length", "HasIV")
    <2>1. /\ Successes("EVP_CIPHER_CTX_iv_length", "HasIV") = {1}
          /\ Failures("EVP_CIPHER_CTX_iv_length", "HasIV") = {0}
      BY DEF Successes, Failures
    <2> QED
      BY <2>1 DEF Judges
  <1>5. Judges("X509_check_ca", "Unchecked") /\ Judges("RSA_size", "Unchecked")
    <2>1. Failures("X509_check_ca", "Unchecked") = {} /\ Failures("RSA_size", "Unchecked") = {}
      BY DEF Failures
    <2> QED
      BY <2>1 DEF Judges
  <1> QED
    BY <1>1, <1>2, <1>3, <1>4, <1>5
-----------------------------------------------------------------------------
(* Every wrapper of W makes this one call, or this sequence of calls. *)
LEMMA EachIsGood ==
    ASSUME NEW W, NEW policy, \A w \in W : Judges(w, policy)
    PROVE  GoodTable(Each(W, <<policy>>))
  <1>1. ASSUME NEW w \in W PROVE GoodRow(w, <<policy>>)
    BY DEF GoodRow, Judges
  <1> QED
    BY <1>1 DEF GoodTable, Each

(* A joined table has no rows but those of its parts. *)
LEMMA JoinIsGood ==
    ASSUME NEW tables, \A t \in tables : GoodTable(t)
    PROVE  GoodTable(Joined(tables))
  <1> SUFFICES ASSUME NEW w \in DOMAIN Joined(tables)
               PROVE  GoodRow(w, Joined(tables)[w])
    BY DEF GoodTable
  <1> DEFINE t == CHOOSE table \in tables : w \in DOMAIN table
  <1>1. w \in UNION {DOMAIN table : table \in tables} /\ Joined(tables)[w] = t[w]
    BY DEF Joined
  <1>2. \E table \in tables : w \in DOMAIN table
    BY <1>1
  <1>3. t \in tables /\ w \in DOMAIN t
    BY <1>2
  <1> QED
    BY <1>1, <1>3 DEF GoodTable

(* The tables of the functions that return a pointer, *)
LEMMA PtrTable == ASSUME NEW W PROVE GoodTable(Each(W, <<"Ptr">>))
BY PtrJudges, EachIsGood

(* of those that return one on success and nothing else, *)
LEMMA IsOneTable ==
    ASSUME NEW W, W \intersect CountFunctions = {}, W \intersect ZeroIsAnAnswer = {},
           W \intersect MinusOneIsAnAnswer = {}
    PROVE  GoodTable(Each(W, <<"IsOne">>))
BY IsOneJudges, EachIsGood

(* of those that return something positive *)
LEMMA IsPositiveTable ==
    ASSUME NEW W, W \intersect ZeroIsAnAnswer = {}, W \intersect MinusOneIsAnAnswer = {}
    PROVE  GoodTable(Each(W, <<"IsPositive">>)) /\ GoodTable(Each(W, <<"HasLength">>))
BY IsPositiveJudges, EachIsGood

(* and of those for which zero is an answer. *)
LEMMA IsNonNegativeTable ==
    ASSUME NEW W, W \intersect MinusOneIsAnAnswer = {}, W \intersect CannotFail = {},
           W \intersect OnlyZeroFails = {},
           W \subseteq ZeroIsAnAnswer \union NeverReturnsZero \union CurveSettings
    PROVE  GoodTable(Each(W, <<"IsNonNegative">>))
  <1>1. \A w \in W : Judges(w, "IsNonNegative")
    BY IsNonNegativeJudges
  <1> QED
    BY <1>1, EachIsGood

(* The wrappers whose return value is checked by hand. *)
LEMMA ByHandTables ==
    /\ GoodTable(Each({"EVP_PKEY_cmp"}, <<"PkeyCmp">>))
    /\ GoodTable(Each({"BIO_gets", "BIO_puts", "BIO_write", "BIO_read"}, <<"Bio">>))
    /\ GoodTable(Each({"X509_verify_cert"}, <<"VerifyCert">>))
    /\ GoodTable(Each({"EVP_CIPHER_CTX_iv_length"}, <<"HasIV">>))
    /\ GoodTable(Each({"X509_check_ca"}, <<"Unchecked">>))
    /\ GoodTable(Each({"RSA_size"}, <<"Unchecked">>))
BY ByHandJudges, EachIsGood

(* A wrapper of several calls: each is judged on its own. *)
LEMMA TablesOfSeveral ==
    /\ GoodTable(Each({"X509_NAME_ENTRY_get_data"}, <<"Ptr", "Ptr", "IsNonNegative">>))
    /\ GoodTable(Each({"X509_get_serialNumber"}, <<"Ptr", "Ptr", "Ptr", "IsOne", "IsOne">>))
    /\ GoodTable(Each({"X509_get_serialNumber_dec"}, <<"Ptr", "Ptr", "Ptr">>))
    /\ GoodTable(Each({"X509_set_serialNumber"}, <<"Ptr", "IsPositive", "IsPositive">>))
    /\ GoodTable(Each({"EC_KEY_oct2key"}, <<"Ptr", "IsOne">>))
    /\ GoodTable(Each({"EC_KEY_key2buf"}, <<"Ptr", "IsPositive">>))
    /\ GoodTable(Each({"EVP_derive_key"}, <<"Ptr", "IsOne", "IsOne", "IsOne", "IsOne">>))
  <1> DEFINE Counts == {"X509_set_serialNumber", "EC_KEY_key2buf"}
             Ones == {"X509_get_serialNumber", "EC_KEY_oct2key", "EVP_derive_key"}
  <1>1. Judges("X509_NAME_ENTRY_get_data", "IsNonNegative")
    <2>1. /\ "X509_NAME_ENTRY_get_data" \notin MinusOneIsAnAnswer
          /\ "X509_NAME_ENTRY_get_data" \notin CannotFail
          /\ "X509_NAME_ENTRY_get_data" \notin OnlyZeroFails
          /\ "X509_NAME_ENTRY_get_data" \in ZeroIsAnAnswer
      BY DEF MinusOneIsAnAnswer, CannotFail, OnlyZeroFails, ZeroIsAnAnswer
    <2> QED
      BY <2>1, IsNonNegativeJudges
  <1>2. ASSUME NEW w \in Counts PROVE Judges(w, "IsPositive")
    <2>1. w \notin ZeroIsAnAnswer /\ w \notin MinusOneIsAnAnswer
      BY DEF ZeroIsAnAnswer, MinusOneIsAnAnswer
    <2> QED
      BY <2>1, IsPositiveJudges
  <1>3. ASSUME NEW w \in Ones PROVE Judges(w, "IsOne")
    <2>1. w \notin CountFunctions /\ w \notin ZeroIsAnAnswer /\ w \notin MinusOneIsAnAnswer
      BY DEF CountFunctions, ZeroIsAnAnswer, MinusOneIsAnAnswer
    <2> QED
      BY <2>1, IsOneJudges
  <1>4. {"Ptr", "IsOne", "IsPositive", "IsNonNegative"} \subseteq Policies
    BY DEF Policies
  <1>5. GoodRow("X509_NAME_ENTRY_get_data", <<"Ptr", "Ptr", "IsNonNegative">>)
    BY <1>1, <1>4, PtrJudges DEF GoodRow
  <1>6. GoodRow("X509_get_serialNumber", <<"Ptr", "Ptr", "Ptr", "IsOne", "IsOne">>)
    BY <1>3, <1>4, PtrJudges DEF GoodRow
  <1>7. GoodRow("X509_get_serialNumber_dec", <<"Ptr", "Ptr", "Ptr">>)
    BY <1>4, PtrJudges DEF GoodRow
  <1>8. GoodRow("X509_set_serialNumber", <<"Ptr", "IsPositive", "IsPositive">>)
    BY <1>2, <1>4, PtrJudges DEF GoodRow
  <1>9. GoodRow("EC_KEY_oct2key", <<"Ptr", "IsOne">>)
    BY <1>3, <1>4, PtrJudges DEF GoodRow
  <1>10. GoodRow("EC_KEY_key2buf", <<"Ptr", "IsPositive">>)
    BY <1>2, <1>4, PtrJudges DEF GoodRow
  <1>11. GoodRow("EVP_derive_key", <<"Ptr", "IsOne", "IsOne", "IsOne", "IsOne">>)
    BY <1>3, <1>4, PtrJudges DEF GoodRow
  <1> QED
    BY <1>5, <1>6, <1>7, <1>8, <1>9, <1>10, <1>11 DEF GoodTable, Each

(* Joins of as many tables as the groups of wrappers have. *)
LEMMA JoinsAreGood ==
    ASSUME NEW a, NEW b, NEW c, GoodTable(a), GoodTable(b), GoodTable(c)
    PROVE  /\ GoodTable(Joined({a, b, c}))
           /\ \A d : GoodTable(d) => GoodTable(Joined({a, b, c, d}))
           /\ \A d, e : GoodTable(d) /\ GoodTable(e) => GoodTable(Joined({a, b, c, d, e}))
BY JoinIsGood

(* Every policy in the table of wrappers fits the function it is used for. *)
LEMMA WrappersAreGood == GoodTable(Wrappers)
  <1> USE PtrTable, IsOneTable, IsPositiveTable, IsNonNegativeTable, ByHandTables,
          TablesOfSeveral, JoinsAreGood
  <1> USE DEF CountFunctions, ZeroIsAnAnswer, MinusOneIsAnAnswer, CannotFail, OnlyZeroFails,
              CurveSettings, NeverReturnsZero
  <1>1. GoodTable(KeyGenerationWrappers)
    BY ZenonT(30) DEF KeyGenerationWrappers
  <1>2. GoodTable(RequestWrappers)
    BY DEF RequestWrappers
  <1>3. GoodTable(BioWrappers)
    BY DEF BioWrappers
  <1>4. GoodTable(PemAndStoreWrappers)
    BY DEF PemAndStoreWrappers
  <1>5. GoodTable(ObjectWrappers)
    BY DEF ObjectWrappers
  <1>6. GoodTable(CertificateWrappers)
    BY DEF CertificateWrappers
  <1>7. GoodTable(CipherWrappers)
    BY DEF CipherWrappers
  <1>8. GoodTable(IntegerWrappers)
    BY DEF IntegerWrappers
  <1>9. GoodTable(CrlWrappers)
    BY DEF CrlWrappers
  <1>10. GoodTable(PkeyOperationWrappers)
    BY DEF PkeyOperationWrappers
  <1>11. GoodTable(EcdsaWrappers)
    BY DEF EcdsaWrappers
  <1>12. GoodTable(KdfAndMacWrappers)
    BY DEF KdfAndMacWrappers
  <1>13. GoodTable(EcAndEngineWrappers)
    BY DEF EcAndEngineWrappers
  <1> QED
    BY <1>1, <1>2, <1>3, <1>4, <1>5, <1>6, <1>7, <1>8, <1>9, <1>10, <1>11, <1>12, <1>13, JoinIsGood DEF Wrappers
-----------------------------------------------------------------------------
(* What a wrapper still has to call is a part of its row, and the wrapper  *)
(* whose call failed is over, unless it is one of the curve settings.      *)
WrapperIInv ==
    /\ TypeOK
    /\ GoodRow(running, pending)
    /\ exception # "none" => pending = <<>>
    /\ failed /\ running \notin CurveSettings => exception # "none"
    /\ SuccessIsAccepted

(* The invariant implies what is checked of the return values. *)
LEMMA WrapperIInvSuffices == WrapperIInv => ReturnChecksAreRight
BY DEF WrapperIInv, ReturnChecksAreRight, FailureIsReported, Returned

(* A row that is not over begins with a policy, and its rest is a row. *)
LEMMA RowSteps ==
    ASSUME NEW w, NEW row, GoodRow(w, row), row # <<>>
    PROVE  Judges(w, Head(row)) /\ GoodRow(w, Tail(row))
  <1>1. row \in Seq(Policies) /\ Len(row) \in Nat /\ Len(row) # 0
    BY EmptySeq DEF GoodRow
  <1>2. Head(row) = row[1] /\ 1 \in 1 .. Len(row)
    BY <1>1
  <1>3. /\ Tail(row) \in Seq(Policies) /\ Len(Tail(row)) = Len(row) - 1
        /\ \A i \in 1 .. Len(Tail(row)) : Tail(row)[i] = row[i + 1] /\ i + 1 \in 1 .. Len(row)
    BY <1>1, HeadTailProperties
  <1> QED
    BY <1>1, <1>2, <1>3 DEF GoodRow

(* The empty row has no call that could be judged wrongly. *)
LEMMA EmptyRow == ASSUME NEW w PROVE GoodRow(w, <<>>)
BY EmptySeq DEF GoodRow

(* The invariant holds of every call of a wrapper. *)
LEMMA WrapperInvariance == Spec => []WrapperIInv
  <1>1. Init => WrapperIInv
    <2> SUFFICES ASSUME Init PROVE WrapperIInv
      OBVIOUS
    <2>1. GoodRow(running, pending) /\ pending \in Seq(Policies)
      BY EmptyRow DEF Init, GoodRow
    <2> QED
      BY <2>1 DEF Init, WrapperIInv, TypeOK, SuccessIsAccepted, Policies
  <1>2. ASSUME WrapperIInv, [Next]_vars PROVE WrapperIInv'
    <2>1. TypeOK
      BY <1>2 DEF WrapperIInv
    <2>2. ASSUME NEW w \in DOMAIN Wrappers, CallWrapper(w) PROVE WrapperIInv'
      <3>1. GoodRow(w, pending')
        BY <2>2, WrappersAreGood DEF CallWrapper, GoodTable
      <3> QED
        BY <2>1, <2>2, <3>1 DEF CallWrapper, WrapperIInv, TypeOK, SuccessIsAccepted,
                                   GoodRow, Policies
    <2>3. ASSUME NEW rv \in -2 .. 2, CallSucceeds(rv) PROVE WrapperIInv'
      <3>1. GoodRow(running, pending) /\ pending # <<>>
        BY <1>2, <2>3 DEF CallSucceeds, WrapperIInv
      <3>2. Judges(running, Head(pending)) /\ GoodRow(running, Tail(pending))
        BY <3>1, RowSteps
      <3>3. ReturnValueIsOk(Head(pending), rv)
        BY <2>3, <3>2 DEF CallSucceeds, Judges
      <3>4. pending' = Tail(pending) /\ UNCHANGED <<running, failed, exception>>
        BY <2>3, <3>3 DEF CallSucceeds
      <3>5. pending' \in Seq(Policies)
        BY <3>2, <3>4 DEF GoodRow
      <3>6. exception = "none"
        BY <1>2, <3>1 DEF WrapperIInv
      <3> QED
        BY <1>2, <2>1, <3>1, <3>2, <3>4, <3>5, <3>6
        DEF WrapperIInv, TypeOK, SuccessIsAccepted, Policies
    <2>4. ASSUME NEW rv \in -2 .. 2, CallFails(rv) PROVE WrapperIInv'
      <3>1. GoodRow(running, pending) /\ pending # <<>>
        BY <1>2, <2>4 DEF CallFails, WrapperIInv
      <3>2. Judges(running, Head(pending)) /\ GoodRow(running, Tail(pending))
        BY <3>1, RowSteps
      <3>3. exception = "none"
        BY <1>2, <3>1 DEF WrapperIInv
      <3>4. UNCHANGED running /\ failed'
        BY <2>4 DEF CallFails
      <3>5. CASE ReturnValueIsOk(Head(pending), rv)
        <4>1. running \in CurveSettings
          BY <2>4, <3>2, <3>5 DEF CallFails, Judges
        <4>2. pending' = Tail(pending) /\ UNCHANGED exception
          BY <2>4, <3>5 DEF CallFails
        <4> QED
          BY <2>1, <2>4, <3>1, <3>2, <3>3, <3>4, <4>1, <4>2
          DEF WrapperIInv, TypeOK, SuccessIsAccepted, Policies, GoodRow
      <3>6. CASE ~ReturnValueIsOk(Head(pending), rv)
        <4>1. pending' = <<>> /\ exception' = "OpenSSLException"
          BY <2>4, <3>6 DEF CallFails
        <4>2. GoodRow(running', pending') /\ pending' \in Seq(Policies)
          BY <4>1, EmptyRow DEF GoodRow
        <4> QED
          BY <2>1, <2>4, <3>1, <3>4, <4>1, <4>2
          DEF WrapperIInv, TypeOK, SuccessIsAccepted, Policies
      <3> QED
        BY <3>5, <3>6
    <2>5. CASE UNCHANGED vars
      BY <1>2, <2>5 DEF vars, WrapperIInv, TypeOK, SuccessIsAccepted
    <2> QED
      BY <1>2, <2>2, <2>3, <2>4, <2>5 DEF Next
  <1> QED
    BY <1>1, <1>2, PTL DEF Spec
-----------------------------------------------------------------------------
(***************************************************************************)
(* Ownership.  The owners of an object are counted one kind at a time.     *)
(***************************************************************************)

SlotsOf(sl, o) == {s \in Slots : sl[s] = o}
HoldersOf(h, o) == {p \in Native!Counted : o \in h[p]}
PlacesOf(seq, o) == {i \in 1 .. Len(seq) : seq[i] = o}
Same(x, y) == IF x = y THEN 1 ELSE 0
IsIn(x, S) == IF x \in S THEN 1 ELSE 0

(* The finite sets of the module of the handles are those of FiniteSets. *)
LEMMA HandlesFiniteSets ==
    ASSUME NEW S
    PROVE  /\ Native!IsFiniteSet(S) = IsFiniteSet(S)
           /\ Native!Cardinality(S) = Cardinality(S)
  <1>1. Native!IsFiniteSet(S) = IsFiniteSet(S)
    BY DEF Native!IsFiniteSet, IsFiniteSet
  <1>2. Native!Cardinality(S) = Cardinality(S)
    BY DEF Native!Cardinality, Cardinality
  <1> QED
    BY <1>1, <1>2

(* What is assumed of the objects, in the words of FiniteSets. *)
LEMMA ObjectFacts ==
    /\ KeyOf \in [Certs -> Keys]
    /\ IsFiniteSet(Slots) /\ IsFiniteSet(Blocks) /\ IsFiniteSet(Native!Counted)
    /\ Cardinality(Blocks) = Cardinality(Slots)
    /\ "null" \notin Native!Counted
    /\ MaxCalls \in Nat
  <1>1. Native!HandlesAssumption
    BY LayerAssumption
  <1>2. /\ IsFiniteSet(Certs) /\ IsFiniteSet(Crls) /\ IsFiniteSet(Keys)
        /\ IsFiniteSet(Slots) /\ IsFiniteSet(Blocks)
    BY <1>1, HandlesFiniteSets DEF Native!HandlesAssumption
  <1>3. IsFiniteSet(Native!Locals)
    <2> DEFINE A == {"store", "stack", "ctx", "crlStack", "keyCtx"}
               B == {"label", "buffer", "r", "s", "sig"}
               C == {"ecKey", "pkey", "name", "req", "mctx"}
    <2>1. \A a, b, c, d, e : IsFiniteSet({a, b, c, d, e})
      <3> TAKE a, b, c, d, e
      <3>1. /\ IsFiniteSet({a}) /\ IsFiniteSet({b}) /\ IsFiniteSet({c})
            /\ IsFiniteSet({d}) /\ IsFiniteSet({e})
        BY FS_Singleton
      <3>2. IsFiniteSet({a} \union {b})
        BY <3>1, FS_Union
      <3>3. IsFiniteSet(({a} \union {b}) \union {c})
        BY <3>1, <3>2, FS_Union
      <3>4. IsFiniteSet((({a} \union {b}) \union {c}) \union {d})
        BY <3>1, <3>3, FS_Union
      <3>5. IsFiniteSet(((({a} \union {b}) \union {c}) \union {d}) \union {e})
        BY <3>1, <3>4, FS_Union
      <3>6. ((({a} \union {b}) \union {c}) \union {d}) \union {e} = {a, b, c, d, e}
        OBVIOUS
      <3> QED
        BY <3>5, <3>6
    <2>2. IsFiniteSet(A) /\ IsFiniteSet(B) /\ IsFiniteSet(C)
      BY <2>1
    <2>3. Native!Locals = (A \union B) \union C
      BY DEF Native!Locals
    <2> HIDE DEF A, B, C
    <2>4. IsFiniteSet(A \union B)
      BY <2>2, FS_Union
    <2> QED
      BY <2>2, <2>3, <2>4, FS_Union
  <1>4. IsFiniteSet(Certs \union Crls)
    BY <1>2, FS_Union
  <1>5. IsFiniteSet((Certs \union Crls) \union Keys)
    BY <1>2, <1>4, FS_Union
  <1>6. IsFiniteSet(((Certs \union Crls) \union Keys) \union Native!Locals)
    BY <1>3, <1>5, FS_Union
  <1>7. IsFiniteSet(Native!Natives)
    BY <1>6 DEF Native!Natives
  <1>8. IsFiniteSet(Native!Counted)
    BY <1>2, <1>7, FS_Union DEF Native!Counted
  <1> QED
    BY <1>1, <1>2, <1>8, HandlesFiniteSets DEF Native!HandlesAssumption, Native!Null

(* A set that another one differs from in at most one element. *)
LEMMA OneMoreElement ==
    ASSUME NEW S, NEW T, NEW x, IsFiniteSet(S), x \notin S,
           T = S \union {x} \/ T = S
    PROVE  /\ IsFiniteSet(T) /\ Cardinality(S) \in Nat
           /\ Cardinality(T) = Cardinality(S) + (IF T = S THEN 0 ELSE 1)
  <1>1. CASE T = S
    BY <1>1, FS_CardinalityType DEF Same, IsIn
  <1>2. CASE T = S \union {x} /\ T # S
    BY <1>2, FS_AddElement, FS_CardinalityType DEF Same, IsIn
  <1> QED
    BY <1>1, <1>2

(* The owners of every kind are finitely many. *)
LEMMA OwnersAreFinite ==
    ASSUME NEW o
    PROVE  /\ \A sl : IsFiniteSet(SlotsOf(sl, o)) /\ Cardinality(SlotsOf(sl, o)) \in Nat
           /\ \A h : IsFiniteSet(HoldersOf(h, o)) /\ Cardinality(HoldersOf(h, o)) \in Nat
           /\ \A S : \A seq \in Seq(S) :
                 IsFiniteSet(PlacesOf(seq, o)) /\ Cardinality(PlacesOf(seq, o)) \in Nat
  <1>1. ASSUME NEW sl
        PROVE  IsFiniteSet(SlotsOf(sl, o)) /\ Cardinality(SlotsOf(sl, o)) \in Nat
    <2>1. SlotsOf(sl, o) \in SUBSET Slots
      BY DEF SlotsOf
    <2> QED
      BY <2>1, ObjectFacts, FS_Subset, FS_CardinalityType
  <1>2. ASSUME NEW h
        PROVE  IsFiniteSet(HoldersOf(h, o)) /\ Cardinality(HoldersOf(h, o)) \in Nat
    <2>1. HoldersOf(h, o) \in SUBSET Native!Counted
      BY DEF HoldersOf
    <2> QED
      BY <2>1, ObjectFacts, FS_Subset, FS_CardinalityType
  <1>3. ASSUME NEW S, NEW seq \in Seq(S)
        PROVE  IsFiniteSet(PlacesOf(seq, o)) /\ Cardinality(PlacesOf(seq, o)) \in Nat
    <2>1. PlacesOf(seq, o) \in SUBSET (1 .. Len(seq))
      BY DEF PlacesOf
    <2>2. IsFiniteSet(1 .. Len(seq))
      BY FS_Interval, LenProperties
    <2> QED
      BY <2>1, <2>2, FS_Subset, FS_CardinalityType
  <1> QED
    BY <1>1, <1>2, <1>3

(* One more element at the end of a sequence. *)
LEMMA PlacesAppend ==
    ASSUME NEW S, NEW seq \in Seq(S), NEW x \in S, NEW o
    PROVE  Cardinality(PlacesOf(Append(seq, x), o)) = Cardinality(PlacesOf(seq, o)) + Same(x, o)
  <1> DEFINE n == Len(seq)
             A == PlacesOf(seq, o)
             B == PlacesOf(Append(seq, x), o)
  <1>1. n \in Nat /\ IsFiniteSet(A)
    BY LenProperties, OwnersAreFinite
  <1>2. /\ Len(Append(seq, x)) = n + 1
        /\ \A i \in 1 .. n : Append(seq, x)[i] = seq[i]
        /\ Append(seq, x)[n + 1] = x
    BY AppendProperties
  <1>3. n + 1 \notin A /\ B = IF x = o THEN A \union {n + 1} ELSE A
    <2>1. A = {i \in 1 .. n : seq[i] = o}
      BY DEF PlacesOf
    <2>2. B = {i \in 1 .. n + 1 : Append(seq, x)[i] = o}
      BY <1>2 DEF PlacesOf
    <2> HIDE DEF A, B, n
    <2> QED
      BY <1>1, <1>2, <2>1, <2>2
  <1> HIDE DEF A, B, n
  <1>4. (B # A) <=> (x = o)
    BY <1>3
  <1> QED
    BY <1>1, <1>3, <1>4, OneMoreElement DEF A, B, Same, IsIn

(* The last element of a sequence comes after the others. *)
LEMMA FrontAndLast ==
    ASSUME NEW S, NEW seq \in Seq(S), seq # <<>>
    PROVE  /\ Native!Front(seq) \in Seq(S) /\ Native!Last(seq) \in S
           /\ seq = Append(Native!Front(seq), Native!Last(seq))
  <1> DEFINE n == Len(seq)
             f == SubSeq(seq, 1, n - 1)
             l == seq[n]
  <1>1. n \in Nat \ {0}
    BY EmptySeq
  <1>2. \A i \in 1 .. n : seq[i] \in S
    BY ElementOfSeq
  <1>3. Native!Front(seq) = f /\ Native!Last(seq) = l
    BY DEF Native!Front, Native!Last
  <1>4. f \in Seq(S) /\ Len(f) = n - 1 /\ \A i \in 1 .. n - 1 : f[i] = seq[i]
    <2> HIDE DEF n
    <2>1. \A i \in 1 .. n - 1 : seq[i] \in S
      BY <1>1, <1>2
    <2>2. n - 1 \in Int
      BY <1>1
    <2>3. /\ SubSeq(seq, 1, n - 1) \in Seq(S)
          /\ Len(SubSeq(seq, 1, n - 1)) = IF 1 <= n - 1 THEN (n - 1) - 1 + 1 ELSE 0
          /\ \A i \in 1 .. (n - 1) - 1 + 1 : SubSeq(seq, 1, n - 1)[i] = seq[1 + i - 1]
      BY <2>1, <2>2, SubSeqProperties
    <2> QED
      BY <1>1, <2>3
  <1>5. l \in S
    BY <1>1, <1>2
  <1> HIDE DEF f, l
  <1>6. /\ Append(f, l) \in Seq(S) /\ Len(Append(f, l)) = n
        /\ \A i \in 1 .. n - 1 : Append(f, l)[i] = f[i]
        /\ Append(f, l)[n] = l
    <2>1. /\ Append(f, l) \in Seq(S) /\ Len(Append(f, l)) = Len(f) + 1
          /\ \A i \in 1 .. Len(f) : Append(f, l)[i] = f[i]
          /\ Append(f, l)[Len(f) + 1] = l
      BY <1>4, <1>5, AppendProperties
    <2> HIDE DEF n
    <2> QED
      BY <1>1, <1>4, <2>1
  <1>7. \A i \in 1 .. n : seq[i] = Append(f, l)[i]
    <2> HIDE DEF n
    <2>1. l = seq[n]
      BY DEF l, n
    <2> QED
      BY <1>1, <1>4, <1>6, <2>1
  <1>8. seq = Append(f, l)
    BY <1>6, <1>7, SeqEqual
  <1> QED
    BY <1>3, <1>4, <1>5, <1>8

(* A sequence of one element, and one of none. *)
LEMMA PlacesOfOne ==
    ASSUME NEW x, NEW o
    PROVE  /\ Cardinality(PlacesOf(<<x>>, o)) = Same(x, o)
           /\ Cardinality(PlacesOf(<<>>, o)) = 0
  <1>1. PlacesOf(<<>>, o) = {}
    BY DEF PlacesOf
  <1>2. PlacesOf(<<x>>, o) = IF x = o THEN {1} ELSE {}
    BY DEF PlacesOf
  <1>3. CASE x = o
    BY <1>1, <1>2, <1>3, FS_Singleton, FS_EmptySet DEF Same, IsIn
  <1>4. CASE x # o
    BY <1>1, <1>2, <1>4, FS_EmptySet DEF Same, IsIn
  <1> QED
    BY <1>3, <1>4

(* Elements counted behind some others are as many as before. *)
LEMMA PlacesShift ==
    ASSUME NEW S, NEW seq \in Seq(S), NEW k \in Nat, NEW o
    PROVE  LET T == {i + k : i \in PlacesOf(seq, o)}
           IN  IsFiniteSet(T) /\ Cardinality(T) = Cardinality(PlacesOf(seq, o))
  <1> DEFINE A == PlacesOf(seq, o)
             T == {i + k : i \in A}
             f == [i \in A |-> i + k]
  <1>1. IsFiniteSet(A) /\ A \subseteq Nat
    <2>1. IsFiniteSet(A)
      BY OwnersAreFinite
    <2>2. A \subseteq Nat
      BY LenProperties DEF PlacesOf
    <2> QED
      BY <2>1, <2>2
  <1> HIDE DEF A
  <1>2. f \in Bijection(A, T)
    <2>1. f \in [A -> T]
      OBVIOUS
    <2>2. \A i, j \in A : f[i] = f[j] => i = j
      BY <1>1
    <2>3. \A t \in T : \E i \in A : f[i] = t
      OBVIOUS
    <2> QED
      BY <2>1, <2>2, <2>3 DEF Bijection, Injection, Surjection, IsInjective
  <1>3. ExistsBijection(A, T)
    BY <1>2 DEF ExistsBijection
  <1>4. IsFiniteSet(T) /\ Cardinality(T) = Cardinality(A)
    BY <1>1, <1>3, FS_Bijection
  <1> QED
    BY <1>4 DEF A

(* The elements of two sequences, one behind the other. *)
LEMMA PlacesConcat ==
    ASSUME NEW S, NEW seq \in Seq(S), NEW more \in Seq(S), NEW o
    PROVE  Cardinality(PlacesOf(seq \o more, o))
           = Cardinality(PlacesOf(seq, o)) + Cardinality(PlacesOf(more, o))
  <1> DEFINE n == Len(seq)
             m == Len(more)
             A == PlacesOf(seq, o)
             B == PlacesOf(more, o)
             T == {i + n : i \in B}
             c == seq \o more
  <1>1. n \in Nat /\ m \in Nat
    BY LenProperties
  <1>2. /\ Len(c) = n + m
        /\ \A i \in 1 .. n + m : c[i] = IF i <= n THEN seq[i] ELSE more[i - n]
    BY ConcatProperties
  <1>3. /\ IsFiniteSet(A) /\ Cardinality(A) \in Nat
        /\ IsFiniteSet(B) /\ Cardinality(B) \in Nat
    BY OwnersAreFinite
  <1>4. IsFiniteSet(T) /\ Cardinality(T) = Cardinality(B)
    <2> HIDE DEF n
    <2> QED
      BY <1>1, PlacesShift
  <1>5. A = {i \in 1 .. n : seq[i] = o} /\ B = {i \in 1 .. m : more[i] = o}
    BY DEF PlacesOf
  <1>6. PlacesOf(c, o) = {i \in 1 .. n + m : c[i] = o}
    BY <1>2 DEF PlacesOf
  <1> HIDE DEF n, m, c
  <1>7. PlacesOf(c, o) = A \union T /\ A \intersect T = {}
    <2>1. A \intersect T = {}
      <3> HIDE DEF A, B
      <3>1. (\A i \in A : i \in 1 .. n) /\ (\A i \in B : i \in 1 .. m)
        BY <1>5
      <3>2. \A t \in T : t > n
        BY <1>1, <3>1
      <3> QED
        BY <1>1, <3>1, <3>2
    <2>2. ASSUME NEW i \in PlacesOf(c, o)
          PROVE  i \in A \union T
      <3>1. i \in 1 .. n + m /\ c[i] = o
        BY <1>6, <2>2
      <3>2. CASE i <= n
        BY <1>1, <1>2, <1>5, <3>1, <3>2
      <3>3. CASE i > n
        <4>1. i - n \in 1 .. m /\ more[i - n] = o /\ i = (i - n) + n
          BY <1>1, <1>2, <3>1, <3>3
        <4>2. i - n \in B
          BY <1>5, <4>1
        <4> HIDE DEF B
        <4> QED
          BY <4>1, <4>2
      <3> QED
        BY <1>1, <3>1, <3>2, <3>3
    <2>3. ASSUME NEW i \in A
          PROVE  i \in PlacesOf(c, o)
      <3>1. i \in 1 .. n /\ seq[i] = o
        BY <1>5
      <3>2. i \in 1 .. n + m /\ c[i] = seq[i]
        BY <1>1, <1>2, <3>1
      <3> QED
        BY <1>6, <3>1, <3>2
    <2>4. ASSUME NEW j \in B
          PROVE  j + n \in PlacesOf(c, o)
      <3>1. j \in 1 .. m /\ more[j] = o
        BY <1>5
      <3>2. j + n \in 1 .. n + m /\ ~(j + n <= n) /\ (j + n) - n = j
        BY <1>1, <3>1
      <3>3. c[j + n] = o
        BY <1>2, <3>1, <3>2
      <3> QED
        BY <1>6, <3>2, <3>3
    <2> HIDE DEF A, B
    <2> QED
      BY <2>1, <2>2, <2>3, <2>4
  <1> HIDE DEF A, B, T
  <1>8. Cardinality(A \union T) = Cardinality(A) + Cardinality(T) - Cardinality(A \intersect T)
    BY <1>3, <1>4, FS_Union
  <1>9. Cardinality(A \intersect T) = 0
    BY <1>7, FS_EmptySet
  <1>10. Cardinality(PlacesOf(c, o)) = Cardinality(A) + Cardinality(B)
    BY <1>3, <1>4, <1>7, <1>8, <1>9
  <1> QED
    BY <1>10 DEF A, B, c

(* The first element of a sequence comes before the others. *)
LEMMA PlacesTail ==
    ASSUME NEW S, NEW seq \in Seq(S), seq # <<>>, NEW o
    PROVE  Cardinality(PlacesOf(seq, o)) = Cardinality(PlacesOf(Tail(seq), o)) + Same(Head(seq), o)
  <1> DEFINE h == Head(seq)
             t == Tail(seq)
  <1>1. h \in S /\ t \in Seq(S)
    BY HeadTailProperties
  <1>2. seq = <<h>> \o t
    <2>1. Len(seq) \in Nat \ {0}
      BY EmptySeq
    <2>2. 1 \in 1 .. Len(seq) /\ Len(seq) \in 1 .. Len(seq)
      BY <2>1
    <2>3. SubSeq(seq, 1, Len(seq)) = <<seq[1]>> \o SubSeq(seq, 1 + 1, Len(seq))
      BY <2>2, SubSeqRecursiveFirst
    <2>4. SubSeq(seq, 1, Len(seq)) = seq /\ Tail(seq) = SubSeq(seq, 2, Len(seq)) /\ Head(seq) = seq[1]
      BY SubSeqFull, TailIsSubSeq
    <2>5. 1 + 1 = 2
      OBVIOUS
    <2> QED
      BY <2>3, <2>4, <2>5
  <1> HIDE DEF h, t
  <1>3. <<h>> \in Seq(S)
    BY <1>1
  <1>4. Cardinality(PlacesOf(<<h>> \o t, o))
        = Cardinality(PlacesOf(<<h>>, o)) + Cardinality(PlacesOf(t, o))
    BY <1>1, <1>3, PlacesConcat
  <1>5. Cardinality(PlacesOf(<<h>>, o)) = Same(h, o)
    BY PlacesOfOne
  <1>6. Cardinality(PlacesOf(t, o)) \in Nat /\ Same(h, o) \in Nat
    BY <1>1, OwnersAreFinite DEF Same, IsIn
  <1>7. Cardinality(PlacesOf(<<h>> \o t, o)) = Cardinality(PlacesOf(t, o)) + Same(h, o)
    BY <1>4, <1>5, <1>6
  <1>8. Cardinality(PlacesOf(seq, o)) = Cardinality(PlacesOf(t, o)) + Same(h, o)
    BY <1>2, <1>7, Zenon
  <1> QED
    BY <1>8, Zenon DEF h, t

(* A new object in the last local. *)
LEMMA PlacesAssign ==
    ASSUME NEW S, NEW seq \in Seq(S), seq # <<>>, NEW x, NEW o, Native!Last(seq) # o,
           NEW then, Len(then) = Len(seq), then[Len(seq)] = x,
           \A i \in 1 .. Len(seq) : i # Len(seq) => then[i] = seq[i]
    PROVE  Cardinality(PlacesOf(then, o)) = Cardinality(PlacesOf(seq, o)) + Same(x, o)
  <1> DEFINE n == Len(seq)
             A == PlacesOf(seq, o)
             B == PlacesOf(then, o)
  <1>1. n \in Nat \ {0}
    BY EmptySeq
  <1>2. n \in 1 .. n
    BY <1>1
  <1>3. /\ then[n] = x /\ \A i \in 1 .. n : i # n => then[i] = seq[i]
    OBVIOUS
  <1>4. A = {i \in 1 .. n : seq[i] = o} /\ B = {i \in 1 .. n : then[i] = o}
    BY DEF PlacesOf
  <1>5. seq[n] # o
    BY DEF Native!Last
  <1>6. IsFiniteSet(A)
    BY OwnersAreFinite
  <1>7. n \notin A /\ B = IF x = o THEN A \union {n} ELSE A
    <2> HIDE DEF A, B, n
    <2> QED
      BY <1>1, <1>2, <1>3, <1>4, <1>5
  <1> HIDE DEF A, B, n
  <1>8. (B # A) <=> (x = o)
    BY <1>7
  <1>9. Cardinality(B) = Cardinality(A) + (IF B = A THEN 0 ELSE 1)
    BY <1>6, <1>7, OneMoreElement
  <1> QED
    BY <1>8, <1>9 DEF A, B, Same

(* Locals that gave up what they owned. *)
LEMMA PlacesReleased ==
    ASSUME NEW S, NEW seq \in Seq(S), "null" \in S, NEW set, NEW o, o # "null"
    PROVE  /\ Native!Released(seq, set) \in Seq(S)
           /\ PlacesOf(Native!Released(seq, set), o)
              = IF o \in set THEN {} ELSE PlacesOf(seq, o)
  <1> DEFINE n == Len(seq)
             r == [i \in 1 .. n |-> IF seq[i] \in set THEN "null" ELSE seq[i]]
  <1>1. n \in Nat /\ \A i \in 1 .. n : seq[i] \in S
    BY LenProperties, ElementOfSeq
  <1>2. Native!Released(seq, set) = r
    BY DEF Native!Released, Native!Null
  <1>3. r \in Seq(S) /\ Len(r) = n
    <2> HIDE DEF n
    <2> QED
      BY <1>1
  <1>4. PlacesOf(r, o) = {i \in 1 .. n : r[i] = o}
    BY <1>3 DEF PlacesOf
  <1>5. PlacesOf(r, o) = IF o \in set THEN {} ELSE PlacesOf(seq, o)
    BY <1>4 DEF PlacesOf
  <1> QED
    BY <1>2, <1>3, <1>5

(* The references of an object that ended, one after the other. *)
LEMMA PlacesOfSet ==
    ASSUME NEW S, NEW set, IsFiniteSet(set), set \subseteq S, NEW o
    PROVE  /\ Native!SetToSeq(set) \in Seq(S)
           /\ Cardinality(PlacesOf(Native!SetToSeq(set), o)) = IsIn(o, set)
  <1> DEFINE n == Cardinality(set)
             F == {g \in [1 .. n -> set] : \A i, j \in 1 .. n : g[i] = g[j] => i = j}
             f == Native!SetToSeq(set)
             A == PlacesOf(f, o)
  <1>1. n \in Nat /\ ExistsBijection(1 .. n, set)
    BY FS_CardinalityType
  <1>2. PICK b : b \in Bijection(1 .. n, set)
    BY <1>1 DEF ExistsBijection
  <1>3. b \in F
    BY <1>2 DEF Bijection, Injection, IsInjective
  <1>4. f = CHOOSE g \in [1 .. n -> set] : \A i, j \in DOMAIN g : g[i] = g[j] => i = j
    BY HandlesFiniteSets DEF Native!SetToSeq, Native!IsInjective
  <1>5. b \in [1 .. n -> set] /\ \A i, j \in DOMAIN b : b[i] = b[j] => i = j
    BY <1>3
  <1>6. f \in [1 .. n -> set] /\ \A i, j \in 1 .. n : f[i] = f[j] => i = j
    <2> HIDE DEF n
    <2>1. \E g \in [1 .. n -> set] : \A i, j \in DOMAIN g : g[i] = g[j] => i = j
      BY <1>5
    <2> HIDE DEF f
    <2>2. f \in [1 .. n -> set] /\ \A i, j \in DOMAIN f : f[i] = f[j] => i = j
      BY <2>1, <1>4
    <2> QED
      BY <2>2
  <1> HIDE DEF n, f
  <1>7. f \in Seq(set) /\ Len(f) = n
    BY <1>1, <1>6
  <1>8. f \in Seq(S)
    BY <1>7, SeqMonotonic
  <1>9. A = {i \in 1 .. n : f[i] = o}
    BY <1>7 DEF PlacesOf
  <1>10. f \in Surjection(1 .. n, set)
    <2>1. f \in Injection(1 .. n, set)
      BY <1>6 DEF Injection, IsInjective
    <2>2. Cardinality(1 .. n) = n
      BY <1>1, FS_Interval
    <2>3. Cardinality(1 .. n) = Cardinality(set)
      BY <2>2 DEF n
    <2> QED
      BY <2>1, <2>3, FS_Injection
  <1>11. CASE o \notin set
    <2>1. A = {}
      BY <1>6, <1>9, <1>11
    <2> QED
      BY <1>8, <1>11, <2>1, FS_EmptySet DEF Same, IsIn, f
  <1>12. CASE o \in set
    <2>1. PICK i \in 1 .. n : f[i] = o
      BY <1>10, <1>12 DEF Surjection
    <2>2. A = {i}
      BY <1>6, <1>9, <2>1
    <2> QED
      BY <1>8, <1>12, <2>2, FS_Singleton DEF Same, IsIn, f
  <1> QED
    BY <1>11, <1>12

(* A variable of the caller that was empty is not any more. *)
LEMMA SlotsFilled ==
    ASSUME NEW sl \in [Slots -> Blocks \union {"null"}], NEW s \in Slots, NEW x, NEW o, sl[s] # o,
           NEW then, then[s] = x, \A t \in Slots \ {s} : then[t] = sl[t]
    PROVE  Cardinality(SlotsOf(then, o)) = Cardinality(SlotsOf(sl, o)) + Same(x, o)
  <1> DEFINE A == SlotsOf(sl, o)
             B == SlotsOf(then, o)
  <1>1. IsFiniteSet(A)
    BY OwnersAreFinite
  <1>2. s \notin A /\ B = IF x = o THEN A \union {s} ELSE A
    BY DEF SlotsOf
  <1> HIDE DEF A, B
  <1>3. (B # A) <=> (x = o)
    BY <1>2
  <1>4. Cardinality(B) = Cardinality(A) + (IF B = A THEN 0 ELSE 1)
    BY <1>1, <1>2, OneMoreElement
  <1> QED
    BY <1>3, <1>4 DEF A, B, Same, IsIn

(* An object that gets more references. *)
LEMMA HoldersGrow ==
    ASSUME NEW h \in [Native!Counted -> SUBSET Native!Counted], NEW p \in Native!Counted,
           NEW more, h[p] \intersect more = {}, NEW o,
           NEW then, then[p] = h[p] \union more,
           \A q \in Native!Counted \ {p} : then[q] = h[q]
    PROVE  Cardinality(HoldersOf(then, o)) = Cardinality(HoldersOf(h, o)) + IsIn(o, more)
  <1> DEFINE A == HoldersOf(h, o)
             B == HoldersOf(then, o)
  <1>1. IsFiniteSet(A)
    BY OwnersAreFinite
  <1>2. CASE o \in more
    <2>1. p \notin A /\ B = A \union {p}
      BY <1>2 DEF HoldersOf
    <2> HIDE DEF A, B
    <2>2. Cardinality(B) = Cardinality(A) + (IF B = A THEN 0 ELSE 1) /\ B # A
      BY <1>1, <2>1, OneMoreElement
    <2> QED
      BY <1>2, <2>2 DEF A, B, IsIn
  <1>3. CASE o \notin more
    <2>1. B = A
      BY <1>3 DEF HoldersOf
    <2>2. Cardinality(A) \in Nat
      BY <1>1, FS_CardinalityType
    <2> QED
      BY <1>3, <2>1, <2>2 DEF IsIn
  <1> QED
    BY <1>2, <1>3

(***************************************************************************)
(* What the functions do, checked ahead of time.  A frame tells what is    *)
(* known between two steps of a function: the locals, objects that are     *)
(* sure to be there, and objects that no other object has a reference of.  *)
(***************************************************************************)

Pointers == {"stack", "ctx", "crlStack"}
KeyObjects == Keys \union {"pkey"}
InScope == Native!Locals \union Keys \union {"null"}
LoneObjects == {"label", "r", "s"}

(* The objects of which an object may ever have a reference *)
MayHold(p, o) ==
    \/ p \in Blocks /\ o \in Certs \union Crls \union KeyObjects \union {"req"}
    \/ p \in Certs /\ o = KeyOf[p]
    \/ p = "store" /\ o \in Certs
    \/ p \in {"keyCtx", "req", "mctx"} /\ o \in KeyObjects
    \/ p = "keyCtx" /\ o = "label"
    \/ p = "sig" /\ o \in {"r", "s"}
    \/ p = "pkey" /\ o = "ecKey"

Frames == [scope : Seq(InScope), ready : SUBSET Native!Counted, apart : SUBSET LoneObjects]

Operations == {"new", "declare", "assign", "generate", "parts", "ref", "take", "point",
               "give", "use", "leave", "return"}
FunctionSteps ==
    [op : Operations, obj : Native!Counted \union {"null"}, of : SUBSET Native!Counted]

(* A step that is safe in frame f, and the frame g that it leads to *)
StepIsSafe(st, f, g) ==
    \/ /\ st.op \in {"new", "generate"} /\ st.obj \in Native!Locals
       /\ g.scope = Append(f.scope, st.obj)
       /\ g.ready = f.ready \union {st.obj} /\ g.apart = f.apart
    \/ /\ st.op = "declare"
       /\ g.scope = Append(f.scope, "null") /\ g.ready = f.ready /\ g.apart = f.apart
    \/ /\ st.op = "assign" /\ st.obj \in Native!Locals
       /\ f.scope # <<>> /\ Native!Last(f.scope) = "null"
       /\ g.scope = [f.scope EXCEPT ![Len(f.scope)] = st.obj]
       /\ g.ready = f.ready \union {st.obj} /\ g.apart = f.apart
    \/ /\ st.op = "ref" /\ st.obj \in f.ready \intersect Keys
       /\ g.scope = Append(f.scope, st.obj) /\ g.ready = f.ready /\ g.apart = f.apart
    \/ /\ st.op = "parts" /\ st.obj \in f.ready
       /\ st.of \subseteq f.apart /\ \A o \in st.of : MayHold(st.obj, o)
       /\ g.scope = f.scope /\ g.ready = f.ready \union st.of /\ g.apart = f.apart \ st.of
    \/ /\ st.op = "take" /\ st.obj \in f.ready /\ st.of \subseteq f.ready
       /\ \A o \in st.of : MayHold(st.obj, o)
       /\ g.scope = f.scope /\ g.ready = f.ready /\ g.apart = f.apart \ st.of
    \/ /\ st.op = "point" /\ st.obj \in f.ready \intersect Pointers /\ st.of \subseteq f.ready
       /\ g = f
    \/ /\ st.op = "give" /\ st.obj \in f.ready \ st.of /\ st.of \subseteq f.ready
       /\ st.of \subseteq f.apart /\ \A o \in st.of : MayHold(st.obj, o)
       /\ \A o \in st.of : Cardinality(PlacesOf(f.scope, o)) = 1
       /\ g.scope = Native!Released(f.scope, st.of)
       /\ g.ready = f.ready /\ g.apart = f.apart \ st.of
    \/ /\ st.op = "use" /\ st.obj \in f.ready
       /\ g = f
    \/ /\ st.op = "leave" /\ f.scope # <<>> /\ Native!Last(f.scope) = "null"
       /\ g.scope = Native!Front(f.scope) /\ g.ready = f.ready /\ g.apart = f.apart
    \/ /\ st.op = "return" /\ st.obj \in KeyObjects \union {"req"}
       /\ Cardinality(PlacesOf(f.scope, st.obj)) = 1
       /\ g = f

(* The steps p are safe one after the other, from frame f to frame g *)
Safely(p, f, g) ==
    /\ p \in Seq(FunctionSteps)
    /\ \E tr \in [Nat -> Frames] :
          /\ tr[1] = f /\ tr[Len(p) + 1] = g
          /\ \A i \in 1 .. Len(p) :
                StepIsSafe(p[i], tr[i], tr[i + 1]) /\ (p[i].op = "return" => i = Len(p))

(* The first step of such a function, and the rest of it. *)
LEMMA SafelyHead ==
    ASSUME NEW p, NEW f \in Frames, NEW g \in Frames, Safely(p, f, g), p # <<>>
    PROVE  /\ Head(p) \in FunctionSteps
           /\ \E e \in Frames : StepIsSafe(Head(p), f, e) /\ Safely(Tail(p), e, g)
           /\ Head(p).op = "return" => Tail(p) = <<>>
  <1> DEFINE n == Len(p)
  <1>1. p \in Seq(FunctionSteps)
    BY DEF Safely
  <1>2. n \in Nat \ {0} /\ Head(p) = p[1] /\ Head(p) \in FunctionSteps
    BY <1>1, EmptySeq, HeadTailProperties
  <1>3. /\ Tail(p) \in Seq(FunctionSteps) /\ Len(Tail(p)) = n - 1
        /\ \A i \in 1 .. n - 1 : Tail(p)[i] = p[i + 1]
    BY <1>1, HeadTailProperties
  <1>4. PICK tr \in [Nat -> Frames] :
          /\ tr[1] = f /\ tr[n + 1] = g
          /\ \A i \in 1 .. n :
                StepIsSafe(p[i], tr[i], tr[i + 1]) /\ (p[i].op = "return" => i = n)
    BY DEF Safely
  <1> HIDE DEF n
  <1> DEFINE rest == [i \in Nat |-> tr[i + 1]]
             t == Tail(p)
  <1>5. rest \in [Nat -> Frames] /\ rest[1] = tr[2] /\ rest[(n - 1) + 1] = g /\ tr[2] \in Frames
    <2>1. 1 \in Nat /\ 2 \in Nat /\ 1 + 1 = 2 /\ (n - 1) + 1 = n /\ n \in Nat
      BY <1>2
    <2>2. rest[1] = tr[2] /\ tr[2] \in Frames
      BY <2>1
    <2>3. rest[n] = tr[n + 1]
      BY <2>1
    <2>4. rest[n] = g
      BY <1>4, <2>3
    <2>5. rest \in [Nat -> Frames]
      OBVIOUS
    <2> HIDE DEF rest
    <2> QED
      BY <2>1, <2>2, <2>4, <2>5
  <1>6. ASSUME NEW i \in 1 .. n - 1
        PROVE  /\ StepIsSafe(t[i], rest[i], rest[i + 1])
               /\ t[i].op = "return" => i = n - 1
    <2>1. i + 1 \in 1 .. n /\ i \in Nat /\ i + 1 \in Nat
      BY <1>2, <1>6
    <2>2. t[i] = p[i + 1] /\ rest[i] = tr[i + 1] /\ rest[i + 1] = tr[(i + 1) + 1]
      BY <1>3, <2>1
    <2>3. /\ StepIsSafe(p[i + 1], tr[i + 1], tr[(i + 1) + 1])
          /\ p[i + 1].op = "return" => i + 1 = n
      BY <1>4, <2>1
    <2>4. StepIsSafe(t[i], rest[i], rest[i + 1])
      BY <2>2, <2>3, Zenon
    <2>5. t[i].op = "return" => i = n - 1
      <3>1. i + 1 = n => i = n - 1
        BY <1>2, <2>1
      <3> QED
        BY <2>2, <2>3, <3>1
    <2> QED
      BY <2>4, <2>5
  <1>7. Safely(t, tr[2], g)
    <2>1. t \in Seq(FunctionSteps) /\ Len(t) = n - 1
      BY <1>3
    <2> HIDE DEF t, rest
    <2> QED
      BY <2>1, <1>5, <1>6 DEF Safely
  <1>8. StepIsSafe(Head(p), f, tr[2]) /\ (Head(p).op = "return" => n = 1)
    <2>1. 1 \in 1 .. n /\ 1 + 1 = 2
      BY <1>2
    <2>2. StepIsSafe(p[1], tr[1], tr[2]) /\ (p[1].op = "return" => 1 = n)
      BY <1>4, <2>1
    <2>3. StepIsSafe(Head(p), f, tr[2])
      BY <1>2, <1>4, <2>2, Zenon
    <2> QED
      BY <1>2, <2>2, <2>3
  <1>9. n = 1 => Tail(p) = <<>>
    <2>1. n = 1 => Len(Tail(p)) = 0
      BY <1>3
    <2>2. Tail(p) # <<>> => Len(Tail(p)) \in Nat \ {0}
      BY <1>3, EmptySeq
    <2> QED
      BY <2>1, <2>2
  <1>10. \E e \in Frames : StepIsSafe(Head(p), f, e) /\ Safely(Tail(p), e, g)
    BY <1>5, <1>7, <1>8, Zenon
  <1>11. Head(p).op = "return" => Tail(p) = <<>>
    BY <1>8, <1>9, Zenon
  <1>12. Head(p) \in FunctionSteps
    BY <1>2
  <1> QED
    BY <1>10, <1>11, <1>12, Zenon

(* Frames one by one show that a function is safe. *)
LEMMA SafelyBy ==
    ASSUME NEW p \in Seq(FunctionSteps), NEW F \in Seq(Frames), Len(F) = Len(p) + 1,
           \A i \in 1 .. Len(p) :
              StepIsSafe(p[i], F[i], F[i + 1]) /\ (p[i].op = "return" => i = Len(p))
    PROVE  Safely(p, F[1], F[Len(p) + 1])
  <1> DEFINE n == Len(p)
             tr == [i \in Nat |-> IF i \in 1 .. n + 1 THEN F[i] ELSE F[1]]
  <1>1. n \in Nat
    BY LenProperties
  <1>2. \A i \in 1 .. n + 1 : F[i] \in Frames
    BY ElementOfSeq
  <1>3. \A i \in 1 .. n :
           StepIsSafe(p[i], F[i], F[i + 1]) /\ (p[i].op = "return" => i = n)
    OBVIOUS
  <1> HIDE DEF n
  <1>4. 1 \in 1 .. n + 1 /\ n + 1 \in 1 .. n + 1 /\ 1 \in Nat /\ n + 1 \in Nat
    BY <1>1
  <1>5. tr \in [Nat -> Frames]
    BY <1>2, <1>4
  <1>6. tr[1] = F[1] /\ tr[n + 1] = F[n + 1]
    BY <1>4
  <1>7. ASSUME NEW i \in 1 .. n
        PROVE  StepIsSafe(p[i], tr[i], tr[i + 1]) /\ (p[i].op = "return" => i = n)
    <2>1. i \in Nat /\ i + 1 \in Nat /\ i \in 1 .. n + 1 /\ i + 1 \in 1 .. n + 1
      BY <1>1
    <2>2. tr[i] = F[i] /\ tr[i + 1] = F[i + 1]
      BY <2>1
    <2> HIDE DEF tr
    <2> QED
      BY <1>3, <2>2, Zenon
  <1> HIDE DEF tr
  <1> QED
    BY <1>5, <1>6, <1>7 DEF Safely, n

(* A function that does one thing after the other. *)
LEMMA SafelyBoth ==
    ASSUME NEW p, NEW q, NEW f \in Frames, NEW g \in Frames, NEW h \in Frames,
           Safely(p, f, g), Safely(q, g, h),
           \A i \in 1 .. Len(p) : p[i].op # "return"
    PROVE  Safely(p \o q, f, h)
  <1> DEFINE n == Len(p)
             m == Len(q)
             c == p \o q
  <1>1. p \in Seq(FunctionSteps) /\ q \in Seq(FunctionSteps)
    BY DEF Safely
  <1>2. n \in Nat /\ m \in Nat
    BY <1>1, LenProperties
  <1>3. /\ c \in Seq(FunctionSteps) /\ Len(c) = n + m
        /\ \A i \in 1 .. n + m : c[i] = IF i <= n THEN p[i] ELSE q[i - n]
    BY <1>1, ConcatProperties
  <1>4. PICK a \in [Nat -> Frames] :
          /\ a[1] = f /\ a[n + 1] = g
          /\ \A i \in 1 .. n : StepIsSafe(p[i], a[i], a[i + 1])
    BY DEF Safely
  <1>5. PICK b \in [Nat -> Frames] :
          /\ b[1] = g /\ b[m + 1] = h
          /\ \A i \in 1 .. m : StepIsSafe(q[i], b[i], b[i + 1]) /\ (q[i].op = "return" => i = m)
    BY DEF Safely
  <1>6. \A i \in 1 .. n : p[i].op # "return"
    OBVIOUS
  <1> DEFINE tr == [i \in Nat |-> IF i <= n THEN a[i] ELSE b[IF i > n THEN i - n ELSE 1]]
  <1> HIDE DEF n, m, c
  <1>7. tr \in [Nat -> Frames]
    BY <1>2, <1>4, <1>5
  <1>8. \A i \in 1 .. n : tr[i] = a[i] /\ tr[i + 1] = a[i + 1]
    <2> TAKE i \in 1 .. n
    <2>1. CASE i < n
      BY <1>2, <2>1
    <2>2. CASE i = n
      BY <1>2, <1>4, <1>5, <2>2
    <2> QED
      BY <1>2, <2>1, <2>2
  <1>9. \A i \in (n + 1) .. (n + m) : tr[i] = b[i - n] /\ tr[i + 1] = b[(i - n) + 1]
    BY <1>2
  <1>10. tr[1] = f
    <2>1. CASE n = 0
      BY <1>2, <1>4, <1>5, <2>1
    <2>2. CASE n > 0
      BY <1>2, <1>4, <2>2
    <2> QED
      BY <1>2, <2>1, <2>2
  <1>11. tr[(n + m) + 1] = h
    BY <1>2, <1>5
  <1> HIDE DEF tr
  <1>12. ASSUME NEW i \in 1 .. n + m
         PROVE  StepIsSafe(c[i], tr[i], tr[i + 1]) /\ (c[i].op = "return" => i = n + m)
    <2>1. CASE i <= n
      <3>1. i \in 1 .. n /\ c[i] = p[i]
        BY <1>2, <1>3, <2>1
      <3>2. StepIsSafe(p[i], a[i], a[i + 1]) /\ p[i].op # "return"
        BY <1>4, <1>6, <3>1
      <3>3. StepIsSafe(c[i], tr[i], tr[i + 1])
        BY <1>8, <3>1, <3>2, Zenon
      <3> QED
        BY <3>1, <3>2, <3>3
    <2>2. CASE i > n
      <3>1. i \in (n + 1) .. (n + m) /\ c[i] = q[i - n] /\ i - n \in 1 .. m
        BY <1>2, <1>3, <2>2
      <3>2. /\ StepIsSafe(q[i - n], b[i - n], b[(i - n) + 1])
            /\ q[i - n].op = "return" => i - n = m
        BY <1>5, <3>1
      <3>3. StepIsSafe(c[i], tr[i], tr[i + 1])
        BY <1>9, <3>1, <3>2, Zenon
      <3>4. c[i].op = "return" => i - n = m
        BY <3>1, <3>2
      <3> QED
        BY <1>2, <3>1, <3>3, <3>4
    <2> QED
      BY <1>2, <2>1, <2>2
  <1>13. Safely(c, f, h)
    BY <1>3, <1>7, <1>10, <1>11, <1>12 DEF Safely
  <1> QED
    BY <1>13 DEF c

(***************************************************************************)
(* The functions of the library are safe, step by step.                    *)
(***************************************************************************)

FrameOf(sc, rd, ap) == [scope |-> sc, ready |-> rd, apart |-> ap]

(* RSASpec::generate() and ECCSpec::generate(). *)
LEMMA GenerateKeyIsSafe ==
    \E g \in Frames : Safely(Native!GenerateKey, FrameOf(<<>>, {}, LoneObjects), g)
  <1> DEFINE p == Native!GenerateKey
             L == LoneObjects
             f0 == FrameOf(<<>>, {}, L)
             f1 == FrameOf(<<"keyCtx">>, {"keyCtx"}, L)
             f2 == FrameOf(<<"keyCtx", "pkey">>, {"keyCtx", "pkey"}, L)
             F == <<f0, f1, f1, f2, f2>>
  <1>1. /\ p \in Seq(FunctionSteps) /\ Len(p) = 4
        /\ p[1] = Native!New("keyCtx") /\ p[2] = Native!Use("keyCtx")
        /\ p[3] = Native!Generate("pkey") /\ p[4] = Native!Return("pkey")
    BY DEF Native!GenerateKey, FunctionSteps, Operations, Native!Generate, Native!New,
           Native!Return, Native!Use, Native!Counted, Native!Natives, Native!Locals,
           Native!Null
  <1>2. f0 \in Frames /\ f1 \in Frames /\ f2 \in Frames
    BY DEF FrameOf, Frames, InScope, LoneObjects, KeyObjects, Native!Counted,
           Native!Natives, Native!Locals
  <1>3. StepIsSafe(Native!New("keyCtx"), f0, f1)
    BY DEF StepIsSafe, FrameOf, Native!New, Native!Locals
  <1>4. StepIsSafe(Native!Use("keyCtx"), f1, f1)
    BY DEF StepIsSafe, FrameOf, Native!Use
  <1>5. StepIsSafe(Native!Generate("pkey"), f1, f2)
    BY DEF StepIsSafe, FrameOf, Native!Generate, Native!Locals
  <1>6. StepIsSafe(Native!Return("pkey"), f2, f2)
    <2>1. PlacesOf(<<"keyCtx", "pkey">>, "pkey") = {2}
      BY DEF PlacesOf
    <2> QED
      BY <2>1, FS_Singleton DEF StepIsSafe, FrameOf, Native!Return, KeyObjects
  <1> HIDE DEF p, f0, f1, f2
  <1>7. /\ F \in Seq(Frames) /\ Len(F) = Len(p) + 1
        /\ F[1] = f0 /\ F[2] = f1 /\ F[3] = f1 /\ F[4] = f2 /\ F[5] = f2
    BY <1>1, <1>2
  <1> HIDE DEF F
  <1>8. ASSUME NEW i \in 1 .. Len(p)
        PROVE  StepIsSafe(p[i], F[i], F[i + 1]) /\ (p[i].op = "return" => i = Len(p))
    <2>1. i = 1 \/ i = 2 \/ i = 3 \/ i = 4
      BY <1>1
    <2>2. StepIsSafe(p[i], F[i], F[i + 1])
      BY <1>1, <1>3, <1>4, <1>5, <1>6, <1>7, <2>1
    <2>3. p[i].op = "return" => i = 4
      BY <1>1, <2>1 DEF Native!Generate, Native!New, Native!Use
    <2> QED
      BY <1>1, <2>2, <2>3
  <1>9. Safely(p, F[1], F[Len(p) + 1])
    BY <1>1, <1>7, <1>8, SafelyBy
  <1>10. F[1] = f0 /\ F[Len(p) + 1] = f2
    BY <1>1, <1>7
  <1>11. Safely(p, f0, f2)
    BY <1>9, <1>10
  <1> QED
    BY <1>2, <1>11 DEF p, f0

(* AsymmetricPublicKey::fromECPoint(). *)
LEMMA FromECPointIsSafe ==
    \E g \in Frames : Safely(Native!FromECPoint, FrameOf(<<>>, {}, LoneObjects), g)
  <1> DEFINE p == Native!FromECPoint
             L == LoneObjects
             f0 == FrameOf(<<>>, {}, L)
             f1 == FrameOf(<<"ecKey">>, {"ecKey"}, L)
             f2 == FrameOf(<<"ecKey", "pkey">>, {"ecKey", "pkey"}, L)
             F == <<f0, f1, f1, f2, f2, f2>>
  <1>1. /\ p \in Seq(FunctionSteps) /\ Len(p) = 5
        /\ p[1] = Native!New("ecKey") /\ p[2] = Native!Use("ecKey")
        /\ p[3] = Native!New("pkey") /\ p[4] = Native!Take("pkey", {"ecKey"})
        /\ p[5] = Native!Return("pkey")
    BY DEF Native!FromECPoint, FunctionSteps, Operations, Native!New, Native!Return,
           Native!Take, Native!Use, Native!Counted, Native!Natives, Native!Locals,
           Native!Null
  <1>2. f0 \in Frames /\ f1 \in Frames /\ f2 \in Frames
    BY DEF FrameOf, Frames, InScope, LoneObjects, KeyObjects, Native!Counted,
           Native!Natives, Native!Locals
  <1>3. StepIsSafe(Native!New("ecKey"), f0, f1)
    BY DEF StepIsSafe, FrameOf, Native!New, Native!Locals
  <1>4. StepIsSafe(Native!Use("ecKey"), f1, f1)
    BY DEF StepIsSafe, FrameOf, Native!Use
  <1>5. StepIsSafe(Native!New("pkey"), f1, f2)
    BY DEF StepIsSafe, FrameOf, Native!New, Native!Locals
  <1>6. StepIsSafe(Native!Take("pkey", {"ecKey"}), f2, f2)
    BY DEF StepIsSafe, FrameOf, Native!Take, MayHold, LoneObjects, KeyObjects
  <1>7. StepIsSafe(Native!Return("pkey"), f2, f2)
    <2>1. PlacesOf(<<"ecKey", "pkey">>, "pkey") = {2}
      BY DEF PlacesOf
    <2> QED
      BY <2>1, FS_Singleton DEF StepIsSafe, FrameOf, Native!Return, KeyObjects
  <1> HIDE DEF p, f0, f1, f2
  <1>8. /\ F \in Seq(Frames) /\ Len(F) = Len(p) + 1
        /\ F[1] = f0 /\ F[2] = f1 /\ F[3] = f1 /\ F[4] = f2 /\ F[5] = f2 /\ F[6] = f2
    BY <1>1, <1>2
  <1> HIDE DEF F
  <1>9. ASSUME NEW i \in 1 .. Len(p)
        PROVE  StepIsSafe(p[i], F[i], F[i + 1]) /\ (p[i].op = "return" => i = Len(p))
    <2>1. i = 1 \/ i = 2 \/ i = 3 \/ i = 4 \/ i = 5
      BY <1>1
    <2>2. StepIsSafe(p[i], F[i], F[i + 1])
      BY <1>1, <1>3, <1>4, <1>5, <1>6, <1>7, <1>8, <2>1
    <2>3. p[i].op = "return" => i = 5
      BY <1>1, <2>1 DEF Native!New, Native!Take, Native!Use
    <2> QED
      BY <1>1, <2>2, <2>3
  <1>10. Safely(p, F[1], F[Len(p) + 1])
    BY <1>1, <1>8, <1>9, SafelyBy
  <1>11. F[1] = f0 /\ F[Len(p) + 1] = f2
    BY <1>1, <1>8
  <1>12. Safely(p, f0, f2)
    BY <1>10, <1>11
  <1> QED
    BY <1>2, <1>12 DEF p, f0

(* _Asn1ECSignatureToIEEE1363EcSignature(). *)
LEMMA ToIEEE1363IsSafe ==
    \E g \in Frames : Safely(Native!ToIEEE1363, FrameOf(<<>>, {}, LoneObjects), g)
  <1> DEFINE p == Native!ToIEEE1363
             L == LoneObjects
             f0 == FrameOf(<<>>, {}, L)
             f1 == FrameOf(<<"sig">>, {"sig"}, L)
             f2 == FrameOf(<<"sig">>, {"sig", "r", "s"}, L \ {"r", "s"})
             F == <<f0, f1, f2, f2, f2>>
  <1>1. /\ p \in Seq(FunctionSteps) /\ Len(p) = 4
        /\ p[1] = Native!New("sig") /\ p[2] = Native!Parts("sig", {"r", "s"})
        /\ p[3] = Native!Use("r") /\ p[4] = Native!Use("s")
    BY DEF Native!ToIEEE1363, FunctionSteps, Operations, Native!New, Native!Parts,
           Native!Use, Native!Counted, Native!Natives, Native!Locals, Native!Null
  <1>2. f0 \in Frames /\ f1 \in Frames /\ f2 \in Frames
    BY DEF FrameOf, Frames, InScope, LoneObjects, KeyObjects, Native!Counted,
           Native!Natives, Native!Locals
  <1>3. StepIsSafe(Native!New("sig"), f0, f1)
    BY DEF StepIsSafe, FrameOf, Native!New, Native!Locals
  <1>4. StepIsSafe(Native!Parts("sig", {"r", "s"}), f1, f2)
    BY DEF StepIsSafe, FrameOf, Native!Parts, MayHold, LoneObjects, KeyObjects
  <1>5. StepIsSafe(Native!Use("r"), f2, f2)
    BY DEF StepIsSafe, FrameOf, Native!Use
  <1>6. StepIsSafe(Native!Use("s"), f2, f2)
    BY DEF StepIsSafe, FrameOf, Native!Use
  <1> HIDE DEF p, f0, f1, f2
  <1>7. /\ F \in Seq(Frames) /\ Len(F) = Len(p) + 1
        /\ F[1] = f0 /\ F[2] = f1 /\ F[3] = f2 /\ F[4] = f2 /\ F[5] = f2
    BY <1>1, <1>2
  <1> HIDE DEF F
  <1>8. ASSUME NEW i \in 1 .. Len(p)
        PROVE  StepIsSafe(p[i], F[i], F[i + 1]) /\ (p[i].op = "return" => i = Len(p))
    <2>1. i = 1 \/ i = 2 \/ i = 3 \/ i = 4
      BY <1>1
    <2>2. StepIsSafe(p[i], F[i], F[i + 1])
      BY <1>1, <1>3, <1>4, <1>5, <1>6, <1>7, <2>1
    <2>3. p[i].op = "return" => i = 4
      BY <1>1, <2>1 DEF Native!New, Native!Parts, Native!Use
    <2> QED
      BY <1>1, <2>2, <2>3
  <1>9. Safely(p, F[1], F[Len(p) + 1])
    BY <1>1, <1>7, <1>8, SafelyBy
  <1>10. F[1] = f0 /\ F[Len(p) + 1] = f2
    BY <1>1, <1>7
  <1>11. Safely(p, f0, f2)
    BY <1>9, <1>10
  <1> QED
    BY <1>2, <1>11 DEF p, f0

(* _IEEE1363EcSignatureToAsn1ECSignature(). *)
LEMMA FromIEEE1363IsSafe ==
    \E g \in Frames : Safely(Native!FromIEEE1363, FrameOf(<<>>, {}, LoneObjects), g)
  <1> DEFINE p == Native!FromIEEE1363
             L == LoneObjects
             f0 == FrameOf(<<>>, {}, L)
             f1 == FrameOf(<<"r">>, {"r"}, L)
             f2 == FrameOf(<<"r", "s">>, {"r", "s"}, L)
             f3 == FrameOf(<<"r", "s", "sig">>, {"r", "s", "sig"}, L)
             f4 == FrameOf(<<"null", "null", "sig">>, {"r", "s", "sig"}, L \ {"r", "s"})
             f5 == FrameOf(<<"null", "null", "sig", "buffer">>, {"r", "s", "sig", "buffer"}, L \ {"r", "s"})
             F == <<f0, f1, f2, f3, f4, f4, f5>>
  <1>1. /\ p \in Seq(FunctionSteps) /\ Len(p) = 6
        /\ p[1] = Native!New("r") /\ p[2] = Native!New("s") /\ p[3] = Native!New("sig")
        /\ p[4] = Native!Give("sig", {"r", "s"}) /\ p[5] = Native!Use("sig")
        /\ p[6] = Native!New("buffer")
    BY DEF Native!FromIEEE1363, FunctionSteps, Operations, Native!Give, Native!New,
           Native!Use, Native!Counted, Native!Natives, Native!Locals, Native!Null
  <1>2. f0 \in Frames /\ f1 \in Frames /\ f2 \in Frames /\ f3 \in Frames /\ f4 \in Frames /\ f5 \in Frames
    BY DEF FrameOf, Frames, InScope, LoneObjects, KeyObjects, Native!Counted,
           Native!Natives, Native!Locals
  <1>3. StepIsSafe(Native!New("r"), f0, f1)
    BY DEF StepIsSafe, FrameOf, Native!New, Native!Locals
  <1>4. StepIsSafe(Native!New("s"), f1, f2)
    BY DEF StepIsSafe, FrameOf, Native!New, Native!Locals
  <1>5. StepIsSafe(Native!New("sig"), f2, f3)
    BY DEF StepIsSafe, FrameOf, Native!New, Native!Locals
  <1>6. StepIsSafe(Native!Give("sig", {"r", "s"}), f3, f4)
    <2>1. PlacesOf(<<"r", "s", "sig">>, "r") = {1} /\ PlacesOf(<<"r", "s", "sig">>, "s") = {2}
      BY DEF PlacesOf
    <2>2. \A o \in {"r", "s"} : Cardinality(PlacesOf(<<"r", "s", "sig">>, o)) = 1
      BY <2>1, FS_Singleton
    <2>3. Native!Released(<<"r", "s", "sig">>, {"r", "s"}) = <<"null", "null", "sig">>
      BY DEF Native!Released, Native!Null
    <2> QED
      BY <2>2, <2>3 DEF StepIsSafe, FrameOf, Native!Give, MayHold, LoneObjects
  <1>7. StepIsSafe(Native!Use("sig"), f4, f4)
    BY DEF StepIsSafe, FrameOf, Native!Use
  <1>8. StepIsSafe(Native!New("buffer"), f4, f5)
    BY DEF StepIsSafe, FrameOf, Native!New, Native!Locals
  <1> HIDE DEF p, f0, f1, f2, f3, f4, f5
  <1>9. /\ F \in Seq(Frames) /\ Len(F) = Len(p) + 1
        /\ F[1] = f0 /\ F[2] = f1 /\ F[3] = f2 /\ F[4] = f3 /\ F[5] = f4 /\ F[6] = f4
        /\ F[7] = f5
    BY <1>1, <1>2
  <1> HIDE DEF F
  <1>10. ASSUME NEW i \in 1 .. Len(p)
        PROVE  StepIsSafe(p[i], F[i], F[i + 1]) /\ (p[i].op = "return" => i = Len(p))
    <2>1. i = 1 \/ i = 2 \/ i = 3 \/ i = 4 \/ i = 5 \/ i = 6
      BY <1>1
    <2>2. StepIsSafe(p[i], F[i], F[i + 1])
      BY <1>1, <1>3, <1>4, <1>5, <1>6, <1>7, <1>8, <1>9, <2>1
    <2>3. p[i].op = "return" => i = 6
      BY <1>1, <2>1 DEF Native!Give, Native!New, Native!Use
    <2> QED
      BY <1>1, <2>2, <2>3
  <1>11. Safely(p, F[1], F[Len(p) + 1])
    BY <1>1, <1>9, <1>10, SafelyBy
  <1>12. F[1] = f0 /\ F[Len(p) + 1] = f5
    BY <1>1, <1>9
  <1>13. Safely(p, f0, f5)
    BY <1>11, <1>12
  <1> QED
    BY <1>2, <1>13 DEF p, f0

(* X509Certificate::getPublicKey(), of a certificate that is there with its *)
(* key.                                                                      *)
LEMMA GetPublicKeyIsSafe ==
    ASSUME NEW cert \in Certs
    PROVE  \E g \in Frames : Safely(Native!GetPublicKey(cert), FrameOf(<<>>, {cert, KeyOf[cert]}, LoneObjects), g)
  <1> DEFINE p == Native!GetPublicKey(cert)
             k == KeyOf[cert]
             L == LoneObjects
             f0 == FrameOf(<<>>, {cert, k}, L)
             f1 == FrameOf(<<k>>, {cert, k}, L)
             F == <<f0, f0, f1, f1>>
  <1>0. k \in Keys
    BY ObjectFacts
  <1>1. /\ p \in Seq(FunctionSteps) /\ Len(p) = 3
        /\ p[1] = Native!Use(cert) /\ p[2] = Native!Ref(k) /\ p[3] = Native!Return(k)
    BY <1>0 DEF Native!GetPublicKey, FunctionSteps, Operations, Native!Ref,
           Native!Return, Native!Use, Native!Counted, Native!Natives, Native!Locals,
           Native!Null
  <1>2. f0 \in Frames /\ f1 \in Frames
    BY <1>0 DEF FrameOf, Frames, InScope, LoneObjects, KeyObjects, Native!Counted,
           Native!Natives, Native!Locals
  <1>3. StepIsSafe(Native!Use(cert), f0, f0)
    BY DEF StepIsSafe, FrameOf, Native!Use
  <1>4. StepIsSafe(Native!Ref(k), f0, f1)
    BY <1>0 DEF StepIsSafe, FrameOf, Native!Ref
  <1>5. StepIsSafe(Native!Return(k), f1, f1)
    <2>1. PlacesOf(<<k>>, k) = {1}
      BY DEF PlacesOf
    <2> QED
      BY <1>0, <2>1, FS_Singleton DEF StepIsSafe, FrameOf, Native!Return, KeyObjects
  <1> HIDE DEF p, f0, f1
  <1>6. /\ F \in Seq(Frames) /\ Len(F) = Len(p) + 1
        /\ F[1] = f0 /\ F[2] = f0 /\ F[3] = f1 /\ F[4] = f1
    BY <1>1, <1>2
  <1> HIDE DEF F
  <1>7. ASSUME NEW i \in 1 .. Len(p)
        PROVE  StepIsSafe(p[i], F[i], F[i + 1]) /\ (p[i].op = "return" => i = Len(p))
    <2>1. i = 1 \/ i = 2 \/ i = 3
      BY <1>1
    <2>2. StepIsSafe(p[i], F[i], F[i + 1])
      BY <1>1, <1>3, <1>4, <1>5, <1>6, <2>1
    <2>3. p[i].op = "return" => i = 3
      BY <1>1, <2>1 DEF Native!Ref, Native!Use
    <2> QED
      BY <1>1, <2>2, <2>3
  <1>8. Safely(p, F[1], F[Len(p) + 1])
    BY <1>1, <1>6, <1>7, SafelyBy
  <1>9. F[1] = f0 /\ F[Len(p) + 1] = f1
    BY <1>1, <1>6
  <1>10. Safely(p, f0, f1)
    BY <1>8, <1>9
  <1> QED
    BY <1>2, <1>10 DEF p, f0

(* RSAEncryptionPublicKeyCtx::encrypt() with a label. *)
LEMMA EncryptOAEPIsSafe ==
    ASSUME NEW key \in KeyObjects
    PROVE  \E g \in Frames : Safely(Native!EncryptOAEP(key), FrameOf(<<>>, {key}, LoneObjects), g)
  <1> DEFINE p == Native!EncryptOAEP(key)
             L == LoneObjects
             f0 == FrameOf(<<>>, {key}, L)
             f1 == FrameOf(<<"keyCtx">>, {key, "keyCtx"}, L)
             f2 == FrameOf(<<"keyCtx", "null">>, {key, "keyCtx"}, L)
             f3 == FrameOf(<<"keyCtx", "label">>, {key, "keyCtx", "label"}, L)
             f4 == FrameOf(<<"keyCtx", "null">>, {key, "keyCtx", "label"}, L \ {"label"})
             f5 == FrameOf(<<"keyCtx">>, {key, "keyCtx", "label"}, L \ {"label"})
             f6 == FrameOf(<<"keyCtx", "buffer">>, {key, "keyCtx", "label", "buffer"}, L \ {"label"})
             F == <<f0, f1, f1, f2, f2, f3, f4, f5, f5, f6, f6>>
  <1>0. key \in Native!Counted /\ LoneObjects \ {key} = LoneObjects
    BY LayerAssumption DEF Native!HandlesAssumption, KeyObjects, LoneObjects,
           Native!Counted, Native!Natives, Native!Locals
  <1>1. /\ p \in Seq(FunctionSteps) /\ Len(p) = 10
        /\ p[1] = Native!New("keyCtx") /\ p[2] = Native!Take("keyCtx", {key})
        /\ p[3] = Native!Declare("label") /\ p[4] = Native!Use("keyCtx")
        /\ p[5] = Native!Assign("label") /\ p[6] = Native!Give("keyCtx", {"label"})
        /\ p[7] = Native!Leave /\ p[8] = Native!Use("keyCtx")
        /\ p[9] = Native!New("buffer") /\ p[10] = Native!Use("keyCtx")
    BY <1>0 DEF Native!EncryptOAEP, FunctionSteps, Operations, Native!Assign,
           Native!Declare, Native!Give, Native!Leave, Native!New, Native!Take,
           Native!Use, Native!Counted, Native!Natives, Native!Locals, Native!Null
  <1>2. f0 \in Frames /\ f1 \in Frames /\ f2 \in Frames /\ f3 \in Frames /\ f4 \in Frames /\ f5 \in Frames /\ f6 \in Frames
    BY <1>0 DEF FrameOf, Frames, InScope, LoneObjects, KeyObjects, Native!Counted,
           Native!Natives, Native!Locals
  <1>3. StepIsSafe(Native!New("keyCtx"), f0, f1)
    BY DEF StepIsSafe, FrameOf, Native!New, Native!Locals
  <1>4. StepIsSafe(Native!Take("keyCtx", {key}), f1, f1)
    BY <1>0 DEF StepIsSafe, FrameOf, Native!Take, MayHold, LoneObjects, KeyObjects
  <1>5. StepIsSafe(Native!Declare("label"), f1, f2)
    BY DEF StepIsSafe, FrameOf, Native!Declare
  <1>6. StepIsSafe(Native!Use("keyCtx"), f2, f2)
    BY DEF StepIsSafe, FrameOf, Native!Use
  <1>7. StepIsSafe(Native!Assign("label"), f2, f3)
    BY DEF StepIsSafe, FrameOf, Native!Assign, Native!Locals, Native!Last
  <1>8. StepIsSafe(Native!Give("keyCtx", {"label"}), f3, f4)
    <2>1. PlacesOf(<<"keyCtx", "label">>, "label") = {2}
      BY DEF PlacesOf
    <2>2. Native!Released(<<"keyCtx", "label">>, {"label"}) = <<"keyCtx", "null">>
      BY DEF Native!Released, Native!Null
    <2> QED
      BY <2>1, <2>2, FS_Singleton DEF StepIsSafe, FrameOf, Native!Give, MayHold, LoneObjects
  <1>9. StepIsSafe(Native!Leave, f4, f5)
    BY DEF StepIsSafe, FrameOf, Native!Leave, Native!Last, Native!Front, Native!Null
  <1>10. StepIsSafe(Native!Use("keyCtx"), f5, f5)
    BY DEF StepIsSafe, FrameOf, Native!Use
  <1>11. StepIsSafe(Native!New("buffer"), f5, f6)
    BY DEF StepIsSafe, FrameOf, Native!New, Native!Locals
  <1>12. StepIsSafe(Native!Use("keyCtx"), f6, f6)
    BY DEF StepIsSafe, FrameOf, Native!Use
  <1> HIDE DEF p, f0, f1, f2, f3, f4, f5, f6
  <1>13. /\ F \in Seq(Frames) /\ Len(F) = Len(p) + 1
        /\ F[1] = f0 /\ F[2] = f1 /\ F[3] = f1 /\ F[4] = f2 /\ F[5] = f2 /\ F[6] = f3
        /\ F[7] = f4 /\ F[8] = f5 /\ F[9] = f5 /\ F[10] = f6 /\ F[11] = f6
    BY <1>1, <1>2
  <1> HIDE DEF F
  <1>14. ASSUME NEW i \in 1 .. Len(p)
        PROVE  StepIsSafe(p[i], F[i], F[i + 1]) /\ (p[i].op = "return" => i = Len(p))
    <2>1. i = 1 \/ i = 2 \/ i = 3 \/ i = 4 \/ i = 5 \/ i = 6 \/ i = 7 \/ i = 8 \/ i = 9 \/ i = 10
      BY <1>1
    <2>2. StepIsSafe(p[i], F[i], F[i + 1])
      BY <1>1, <1>3, <1>4, <1>5, <1>6, <1>7, <1>8, <1>9, <1>10, <1>11, <1>12, <1>13,
         <2>1
    <2>3. p[i].op = "return" => i = 10
      BY <1>1, <2>1 DEF Native!Assign, Native!Declare, Native!Give, Native!Leave,
             Native!New, Native!Take, Native!Use
    <2> QED
      BY <1>1, <2>2, <2>3
  <1>15. Safely(p, F[1], F[Len(p) + 1])
    BY <1>1, <1>13, <1>14, SafelyBy
  <1>16. F[1] = f0 /\ F[Len(p) + 1] = f6
    BY <1>1, <1>13
  <1>17. Safely(p, f0, f6)
    BY <1>15, <1>16
  <1> QED
    BY <1>2, <1>17 DEF p, f0

(* CertificateSigningRequest::CertificateSigningRequest(). *)
LEMMA MakeCsrIsSafe ==
    ASSUME NEW key \in KeyObjects
    PROVE  \E g \in Frames : Safely(Native!MakeCsr(key), FrameOf(<<>>, {key}, LoneObjects), g)
  <1> DEFINE p == Native!MakeCsr(key)
             L == LoneObjects
             f0 == FrameOf(<<>>, {key}, L)
             f1 == FrameOf(<<"req">>, {key, "req"}, L)
             f2 == FrameOf(<<"req", "name">>, {key, "req", "name"}, L)
             f3 == FrameOf(<<"req", "name", "mctx">>, {key, "req", "name", "mctx"}, L)
             F == <<f0, f1, f2, f2, f2, f2, f3, f3, f3, f3>>
  <1>0. key \in Native!Counted /\ LoneObjects \ {key} = LoneObjects
    BY LayerAssumption DEF Native!HandlesAssumption, KeyObjects, LoneObjects,
           Native!Counted, Native!Natives, Native!Locals
  <1>1. /\ p \in Seq(FunctionSteps) /\ Len(p) = 9
        /\ p[1] = Native!New("req") /\ p[2] = Native!New("name")
        /\ p[3] = Native!Use("name") /\ p[4] = Native!Use("req")
        /\ p[5] = Native!Take("req", {key}) /\ p[6] = Native!New("mctx")
        /\ p[7] = Native!Take("mctx", {key}) /\ p[8] = Native!Use("req")
        /\ p[9] = Native!Return("req")
    BY <1>0 DEF Native!MakeCsr, FunctionSteps, Operations, Native!New, Native!Return,
           Native!Take, Native!Use, Native!Counted, Native!Natives, Native!Locals,
           Native!Null
  <1>2. f0 \in Frames /\ f1 \in Frames /\ f2 \in Frames /\ f3 \in Frames
    BY <1>0 DEF FrameOf, Frames, InScope, LoneObjects, KeyObjects, Native!Counted,
           Native!Natives, Native!Locals
  <1>3. StepIsSafe(Native!New("req"), f0, f1)
    BY DEF StepIsSafe, FrameOf, Native!New, Native!Locals
  <1>4. StepIsSafe(Native!New("name"), f1, f2)
    BY DEF StepIsSafe, FrameOf, Native!New, Native!Locals
  <1>5. StepIsSafe(Native!Use("name"), f2, f2)
    BY DEF StepIsSafe, FrameOf, Native!Use
  <1>6. StepIsSafe(Native!Use("req"), f2, f2)
    BY DEF StepIsSafe, FrameOf, Native!Use
  <1>7. StepIsSafe(Native!Take("req", {key}), f2, f2)
    BY <1>0 DEF StepIsSafe, FrameOf, Native!Take, MayHold, LoneObjects, KeyObjects
  <1>8. StepIsSafe(Native!New("mctx"), f2, f3)
    BY DEF StepIsSafe, FrameOf, Native!New, Native!Locals
  <1>9. StepIsSafe(Native!Take("mctx", {key}), f3, f3)
    BY <1>0 DEF StepIsSafe, FrameOf, Native!Take, MayHold, LoneObjects, KeyObjects
  <1>10. StepIsSafe(Native!Use("req"), f3, f3)
    BY DEF StepIsSafe, FrameOf, Native!Use
  <1>11. StepIsSafe(Native!Return("req"), f3, f3)
    <2>1. PlacesOf(<<"req", "name", "mctx">>, "req") = {1}
      BY DEF PlacesOf
    <2> QED
      BY <2>1, FS_Singleton DEF StepIsSafe, FrameOf, Native!Return, KeyObjects
  <1> HIDE DEF p, f0, f1, f2, f3
  <1>12. /\ F \in Seq(Frames) /\ Len(F) = Len(p) + 1
        /\ F[1] = f0 /\ F[2] = f1 /\ F[3] = f2 /\ F[4] = f2 /\ F[5] = f2 /\ F[6] = f2
        /\ F[7] = f3 /\ F[8] = f3 /\ F[9] = f3 /\ F[10] = f3
    BY <1>1, <1>2
  <1> HIDE DEF F
  <1>13. ASSUME NEW i \in 1 .. Len(p)
        PROVE  StepIsSafe(p[i], F[i], F[i + 1]) /\ (p[i].op = "return" => i = Len(p))
    <2>1. i = 1 \/ i = 2 \/ i = 3 \/ i = 4 \/ i = 5 \/ i = 6 \/ i = 7 \/ i = 8 \/ i = 9
      BY <1>1
    <2>2. StepIsSafe(p[i], F[i], F[i + 1])
      BY <1>1, <1>3, <1>4, <1>5, <1>6, <1>7, <1>8, <1>9, <1>10, <1>11, <1>12, <2>1
    <2>3. p[i].op = "return" => i = 9
      BY <1>1, <2>1 DEF Native!New, Native!Take, Native!Use
    <2> QED
      BY <1>1, <2>2, <2>3
  <1>14. Safely(p, F[1], F[Len(p) + 1])
    BY <1>1, <1>12, <1>13, SafelyBy
  <1>15. F[1] = f0 /\ F[Len(p) + 1] = f3
    BY <1>1, <1>12
  <1>16. Safely(p, f0, f3)
    BY <1>14, <1>15
  <1> QED
    BY <1>2, <1>16 DEF p, f0

(* X509Certificate::verify() with and without revocation lists, and what is *)
(* known before and after the stack of these is made                        *)
VerifyStart(leaf, trusted, intermediates) ==
    <<Native!New("store"), Native!Take("store", trusted), Native!New("stack"),
      Native!Point("stack", intermediates), Native!New("ctx"),
      Native!Point("ctx", {"store", leaf, "stack"}), Native!Use("ctx"), Native!Declare("crlStack")>>
VerifyLists(crls) ==
    <<Native!Assign("crlStack"), Native!Point("crlStack", crls), Native!Point("ctx", {"crlStack"})>>
BeforeLists(ready) ==
    FrameOf(<<"store", "stack", "ctx", "null">>, ready \union {"store", "stack", "ctx"}, LoneObjects)
AfterLists(ready) ==
    FrameOf(<<"store", "stack", "ctx", "crlStack">>,
            ready \union {"store", "stack", "ctx", "crlStack"}, LoneObjects)

(* The store, the stack of certificates and the context of verify(). *)
LEMMA VerifyStartIsSafe ==
    ASSUME NEW ready \in SUBSET (Certs \union Crls), NEW leaf \in ready,
           NEW trusted \in SUBSET (ready \intersect Certs), NEW intermediates \in SUBSET ready
    PROVE  Safely(VerifyStart(leaf, trusted, intermediates), FrameOf(<<>>, ready, LoneObjects),
                  BeforeLists(ready))
  <1> DEFINE p == VerifyStart(leaf, trusted, intermediates)
             L == LoneObjects
             f0 == FrameOf(<<>>, ready, L)
             f1 == FrameOf(<<"store">>, ready \union {"store"}, L)
             f2 == FrameOf(<<"store", "stack">>, ready \union {"store", "stack"}, L)
             f3 == FrameOf(<<"store", "stack", "ctx">>, ready \union {"store", "stack", "ctx"}, L)
             f4 == FrameOf(<<"store", "stack", "ctx", "null">>, ready \union {"store", "stack", "ctx"}, L)
             F == <<f0, f1, f1, f2, f2, f3, f3, f3, f4>>
  <1>0. /\ ready \subseteq Native!Counted /\ trusted \subseteq Native!Counted
        /\ intermediates \subseteq Native!Counted /\ LoneObjects \ trusted = LoneObjects
    BY LayerAssumption DEF Native!HandlesAssumption, LoneObjects, Native!Counted,
           Native!Natives, Native!Locals
  <1>1. /\ p \in Seq(FunctionSteps) /\ Len(p) = 8
        /\ p[1] = Native!New("store") /\ p[2] = Native!Take("store", trusted)
        /\ p[3] = Native!New("stack") /\ p[4] = Native!Point("stack", intermediates)
        /\ p[5] = Native!New("ctx")
        /\ p[6] = Native!Point("ctx", {"store", leaf, "stack"})
        /\ p[7] = Native!Use("ctx") /\ p[8] = Native!Declare("crlStack")
    BY <1>0 DEF VerifyStart, FunctionSteps, Operations, Native!Declare, Native!New, Native!Point,
           Native!Take, Native!Use, Native!Counted, Native!Natives, Native!Locals,
           Native!Null
  <1>2. f0 \in Frames /\ f1 \in Frames /\ f2 \in Frames /\ f3 \in Frames /\ f4 \in Frames
    BY <1>0 DEF FrameOf, Frames, InScope, LoneObjects, KeyObjects, Native!Counted,
           Native!Natives, Native!Locals
  <1>3. StepIsSafe(Native!New("store"), f0, f1)
    BY DEF StepIsSafe, FrameOf, Native!New, Native!Locals
  <1>4. StepIsSafe(Native!Take("store", trusted), f1, f1)
    BY <1>0 DEF StepIsSafe, FrameOf, Native!Take, MayHold, LoneObjects, KeyObjects
  <1>5. StepIsSafe(Native!New("stack"), f1, f2)
    BY DEF StepIsSafe, FrameOf, Native!New, Native!Locals
  <1>6. StepIsSafe(Native!Point("stack", intermediates), f2, f2)
    BY <1>0 DEF StepIsSafe, FrameOf, Native!Point, Pointers
  <1>7. StepIsSafe(Native!New("ctx"), f2, f3)
    BY DEF StepIsSafe, FrameOf, Native!New, Native!Locals
  <1>8. StepIsSafe(Native!Point("ctx", {"store", leaf, "stack"}), f3, f3)
    BY <1>0 DEF StepIsSafe, FrameOf, Native!Point, Pointers
  <1>9. StepIsSafe(Native!Use("ctx"), f3, f3)
    BY DEF StepIsSafe, FrameOf, Native!Use
  <1>10. StepIsSafe(Native!Declare("crlStack"), f3, f4)
    BY DEF StepIsSafe, FrameOf, Native!Declare
  <1> HIDE DEF p, f0, f1, f2, f3, f4
  <1>11. /\ F \in Seq(Frames) /\ Len(F) = Len(p) + 1
        /\ F[1] = f0 /\ F[2] = f1 /\ F[3] = f1 /\ F[4] = f2 /\ F[5] = f2 /\ F[6] = f3
        /\ F[7] = f3 /\ F[8] = f3 /\ F[9] = f4
    BY <1>1, <1>2
  <1> HIDE DEF F
  <1>12. ASSUME NEW i \in 1 .. Len(p)
        PROVE  StepIsSafe(p[i], F[i], F[i + 1]) /\ (p[i].op = "return" => i = Len(p))
    <2>1. i = 1 \/ i = 2 \/ i = 3 \/ i = 4 \/ i = 5 \/ i = 6 \/ i = 7 \/ i = 8
      BY <1>1
    <2>2. StepIsSafe(p[i], F[i], F[i + 1])
      BY <1>1, <1>3, <1>4, <1>5, <1>6, <1>7, <1>8, <1>9, <1>10, <1>11, <2>1
    <2>3. p[i].op = "return" => i = 8
      BY <1>1, <2>1 DEF Native!Declare, Native!New, Native!Point, Native!Take,
             Native!Use
    <2> QED
      BY <1>1, <2>2, <2>3
  <1>13. Safely(p, F[1], F[Len(p) + 1])
    BY <1>1, <1>11, <1>12, SafelyBy
  <1>14. F[1] = f0 /\ F[Len(p) + 1] = f4
    BY <1>1, <1>11
  <1>15. Safely(p, f0, f4)
    BY <1>13, <1>14
  <1> QED
    BY <1>2, <1>15 DEF p, f0, f4, L, BeforeLists

(* The stack of revocation lists of verify(). *)
LEMMA VerifyListsIsSafe ==
    ASSUME NEW ready \in SUBSET (Certs \union Crls), NEW crls \in SUBSET ready
    PROVE  Safely(VerifyLists(crls), BeforeLists(ready), AfterLists(ready))
  <1> DEFINE p == VerifyLists(crls)
             L == LoneObjects
             f0 == FrameOf(<<"store", "stack", "ctx", "null">>, ready \union {"store", "stack", "ctx"}, L)
             f1 == FrameOf(<<"store", "stack", "ctx", "crlStack">>, ready \union {"store", "stack", "ctx", "crlStack"}, L)
             F == <<f0, f1, f1, f1>>
  <1>0. ready \subseteq Native!Counted
    BY DEF Native!Counted, Native!Natives
  <1>1. /\ p \in Seq(FunctionSteps) /\ Len(p) = 3
        /\ p[1] = Native!Assign("crlStack") /\ p[2] = Native!Point("crlStack", crls)
        /\ p[3] = Native!Point("ctx", {"crlStack"})
    BY <1>0 DEF VerifyLists, FunctionSteps, Operations, Native!Assign, Native!Point, Native!Counted,
           Native!Natives, Native!Locals, Native!Null
  <1>2. f0 \in Frames /\ f1 \in Frames
    BY <1>0 DEF FrameOf, Frames, InScope, LoneObjects, KeyObjects, Native!Counted,
           Native!Natives, Native!Locals
  <1>3. StepIsSafe(Native!Assign("crlStack"), f0, f1)
    BY DEF StepIsSafe, FrameOf, Native!Assign, Native!Locals, Native!Last
  <1>4. StepIsSafe(Native!Point("crlStack", crls), f1, f1)
    BY <1>0 DEF StepIsSafe, FrameOf, Native!Point, Pointers
  <1>5. StepIsSafe(Native!Point("ctx", {"crlStack"}), f1, f1)
    BY <1>0 DEF StepIsSafe, FrameOf, Native!Point, Pointers
  <1> HIDE DEF p, f0, f1
  <1>6. /\ F \in Seq(Frames) /\ Len(F) = Len(p) + 1
        /\ F[1] = f0 /\ F[2] = f1 /\ F[3] = f1 /\ F[4] = f1
    BY <1>1, <1>2
  <1> HIDE DEF F
  <1>7. ASSUME NEW i \in 1 .. Len(p)
        PROVE  StepIsSafe(p[i], F[i], F[i + 1]) /\ (p[i].op = "return" => i = Len(p))
    <2>1. i = 1 \/ i = 2 \/ i = 3
      BY <1>1
    <2>2. StepIsSafe(p[i], F[i], F[i + 1])
      BY <1>1, <1>3, <1>4, <1>5, <1>6, <2>1
    <2>3. p[i].op = "return" => i = 3
      BY <1>1, <2>1 DEF Native!Assign, Native!Point
    <2> QED
      BY <1>1, <2>2, <2>3
  <1>8. Safely(p, F[1], F[Len(p) + 1])
    BY <1>1, <1>6, <1>7, SafelyBy
  <1>9. F[1] = f0 /\ F[Len(p) + 1] = f1
    BY <1>1, <1>6
  <1>10. Safely(p, f0, f1)
    BY <1>8, <1>9
  <1> QED
    BY <1>2, <1>10 DEF p, f0, f1, L, BeforeLists, AfterLists

(* X509Certificate::verify(). *)
LEMMA VerifyIsSafe ==
    ASSUME NEW ready \in SUBSET (Certs \union Crls), NEW leaf \in ready,
           NEW trusted \in SUBSET (ready \intersect Certs),
           NEW intermediates \in SUBSET ready, NEW crls \in SUBSET ready
    PROVE  \E g \in Frames :
              Safely(Native!Verify(leaf, trusted, intermediates, crls),
                     FrameOf(<<>>, ready, LoneObjects), g)
  <1> DEFINE A == VerifyStart(leaf, trusted, intermediates)
             B == VerifyLists(crls)
             C == <<Native!Use("ctx")>>
             s == FrameOf(<<>>, ready, LoneObjects)
             b == BeforeLists(ready)
             a == AfterLists(ready)
  <1>1. ready \subseteq Native!Counted
    BY DEF Native!Counted, Native!Natives
  <1>2. s \in Frames /\ b \in Frames /\ a \in Frames
    BY <1>1 DEF FrameOf, BeforeLists, AfterLists, Frames, InScope, Native!Counted,
           Native!Natives, Native!Locals
  <1>3. Safely(A, s, b) /\ Safely(B, b, a)
    BY VerifyStartIsSafe, VerifyListsIsSafe
  <1>4. (\A i \in 1 .. Len(A) : A[i].op # "return") /\ (\A i \in 1 .. Len(B) : B[i].op # "return")
    <2>1. \A i \in 1 .. Len(A) : A[i].op # "return"
      BY DEF VerifyStart, Native!New, Native!Take, Native!Point, Native!Use, Native!Declare
    <2>2. \A i \in 1 .. Len(B) : B[i].op # "return"
      BY DEF VerifyLists, Native!Assign, Native!Point
    <2> QED
      BY <2>1, <2>2
  <1>5. ASSUME NEW f \in {a, b}
        PROVE  Safely(C, f, f)
    <2>1. f \in Frames /\ "ctx" \in f.ready
      <3>1. "ctx" \in a.ready /\ "ctx" \in b.ready
        BY DEF BeforeLists, AfterLists, FrameOf
      <3> HIDE DEF a, b
      <3> QED
        BY <1>2, <3>1
    <2>2. C \in Seq(FunctionSteps) /\ Len(C) = 1 /\ C[1] = Native!Use("ctx")
      BY DEF FunctionSteps, Operations, Native!Use, Native!Counted, Native!Natives, Native!Locals
    <2>3. StepIsSafe(Native!Use("ctx"), f, f) /\ Native!Use("ctx").op # "return"
      BY <2>1 DEF StepIsSafe, Native!Use
    <2> DEFINE F == <<f, f>>
    <2>4. F \in Seq(Frames) /\ Len(F) = 2 /\ F[1] = f /\ F[2] = f
      BY <2>1
    <2> HIDE DEF F, C
    <2>5. \A i \in 1 .. Len(C) :
             StepIsSafe(C[i], F[i], F[i + 1]) /\ (C[i].op = "return" => i = Len(C))
      BY <2>2, <2>3, <2>4
    <2>6. Safely(C, F[1], F[Len(C) + 1])
      <3>1. Len(F) = Len(C) + 1
        BY <2>2, <2>4
      <3> QED
        BY <2>2, <2>4, <2>5, <3>1, SafelyBy
    <2>7. F[1] = f /\ F[Len(C) + 1] = f
      BY <2>2, <2>4
    <2> QED
      BY <2>6, <2>7
  <1>6. Safely(C, a, a) /\ Safely(C, b, b)
    BY <1>5
  <1>7. A \in Seq(FunctionSteps) /\ B \in Seq(FunctionSteps)
    BY <1>3 DEF Safely
  <1>8. Native!Verify(leaf, trusted, intermediates, crls)
        = (A \o (IF crls = {} THEN <<>> ELSE B)) \o C
    BY Zenon DEF Native!Verify, VerifyStart, VerifyLists
  <1> HIDE DEF A, B, C, s, a, b
  <1>9. CASE crls = {}
    <2>1. A \o <<>> = A
      BY <1>7, ConcatEmptySeq
    <2>2. Safely(A \o C, s, b)
      BY <1>2, <1>3, <1>4, <1>6, SafelyBoth
    <2>3. Native!Verify(leaf, trusted, intermediates, crls) = A \o C
      BY <1>8, <1>9, <2>1
    <2> QED
      BY <1>2, <2>2, <2>3 DEF s
  <1>10. CASE crls # {}
    <2> DEFINE D == A \o B
    <2>1. Safely(D, s, a)
      BY <1>2, <1>3, <1>4, SafelyBoth
    <2>2. \A i \in 1 .. Len(D) : D[i].op # "return"
      <3> DEFINE n == Len(A)
                 m == Len(B)
      <3>1. n \in Nat /\ m \in Nat
        BY <1>7, LenProperties
      <3>2. Len(D) = n + m /\ \A i \in 1 .. n + m : D[i] = IF i <= n THEN A[i] ELSE B[i - n]
        BY <1>7, ConcatProperties
      <3>3. (\A i \in 1 .. n : A[i].op # "return") /\ (\A i \in 1 .. m : B[i].op # "return")
        BY <1>4
      <3> HIDE DEF n, m, D
      <3>4. ASSUME NEW i \in 1 .. n + m
            PROVE  D[i].op # "return"
        <4>1. CASE i <= n
          BY <3>1, <3>2, <3>3, <4>1
        <4>2. CASE i > n
          <5>1. i - n \in 1 .. m /\ D[i] = B[i - n]
            BY <3>1, <3>2, <4>2
          <5> QED
            BY <3>3, <5>1
        <4> QED
          BY <3>1, <4>1, <4>2
      <3> QED
        BY <3>2, <3>4
    <2> HIDE DEF D
    <2>3. Safely(D \o C, s, a)
      BY <1>2, <1>6, <2>1, <2>2, SafelyBoth
    <2>4. Native!Verify(leaf, trusted, intermediates, crls) = D \o C
      BY <1>8, <1>10 DEF D
    <2> QED
      BY <1>2, <2>3, <2>4 DEF s
  <1> QED
    BY <1>9, <1>10

(***************************************************************************)
(* The inductive invariant of the handles.  Every count is the number of   *)
(* owners, whatever has a reference is of a kind that may have it, and     *)
(* what is left of the running function is safe: there is a set of         *)
(* objects, everything that is pointed to among them, that the locals and  *)
(* the arguments keep alive.                                               *)
(***************************************************************************)

OwnersOf(o) ==
    Cardinality(SlotsOf(hSlots, o)) + Cardinality(HoldersOf(hHolds, o))
    + Cardinality(PlacesOf(hScope, o)) + Cardinality(PlacesOf(hDropping, o))

HandlesTypes ==
    /\ hRefs \in [Native!Counted -> Nat]
    /\ hHolds \in [Native!Counted -> SUBSET Native!Counted]
    /\ hPoints \in [Native!Counted -> SUBSET Native!Counted]
    /\ hSlots \in [Slots -> Blocks \union {"null"}]
    /\ hScope \in Seq(InScope)
    /\ hTodo \in Seq(FunctionSteps)
    /\ hArguments \in SUBSET Slots
    /\ hDropping \in Seq(Native!Counted)
    /\ hFaults = {}
    /\ hCalls \in 0 .. MaxCalls

HandlesCounts == \A o \in Native!Counted : hRefs[o] = OwnersOf(o)

HandlesShape ==
    /\ \A p \in Native!Counted : \A o \in hHolds[p] : MayHold(p, o)
    /\ \A p \in Native!Counted : hPoints[p] # {} => p \in Pointers
    /\ \A p \in Native!Counted : hRefs[p] = 0 => hHolds[p] = {} /\ hPoints[p] = {}
    /\ \A b \in Blocks : hRefs[b] > 0 => hHolds[b] # {}
    /\ \A c \in Certs : hRefs[c] > 0 => KeyOf[c] \in hHolds[c]
    /\ \A s \in hArguments : hSlots[s] # "null"

(* The objects in H are kept by locals, arguments and each other *)
Kept(H) ==
    \A x \in H : \/ \E i \in 1 .. Len(hScope) : hScope[i] = x
                 \/ \E s \in hArguments : hSlots[s] = x
                 \/ \E p \in H : x \in hHolds[p]

RunIsSafe(H, f, g) ==
    /\ Kept(H)
    /\ \A p \in Native!Counted : hPoints[p] \subseteq H
    /\ f.scope = hScope
    /\ f.ready \subseteq H
    /\ \A p \in Native!Counted : f.apart \intersect hHolds[p] = {}
    /\ Safely(hTodo, f, g)

HandlesRun ==
    hTodo # <<>> => \E H \in SUBSET Native!Counted, f, g \in Frames : RunIsSafe(H, f, g)

HandlesIInv == HandlesTypes /\ HandlesCounts /\ HandlesShape /\ HandlesRun

(* Objects of different kinds are different ones. *)
LEMMA KindsDiffer ==
    /\ Native!Counted = Certs \union Crls \union Keys \union Native!Locals \union Blocks
    /\ Certs \intersect (Crls \union Keys \union Native!Locals \union Blocks) = {}
    /\ Crls \intersect (Keys \union Native!Locals \union Blocks) = {}
    /\ Keys \intersect (Native!Locals \union Blocks) = {}
    /\ Native!Locals \intersect Blocks = {}
    /\ "null" \notin Native!Counted
BY LayerAssumption DEF Native!HandlesAssumption, Native!Counted, Native!Natives, Native!Null

(* An object with an owner is counted, and one with an owner besides a     *)
(* reference on its way back is counted twice.                             *)
LEMMA OwnedIsCounted ==
    ASSUME HandlesTypes, HandlesCounts, NEW o \in Native!Counted
    PROVE  /\ (\E s \in Slots : hSlots[s] = o) => hRefs[o] >= 1
           /\ (\E p \in Native!Counted : o \in hHolds[p]) => hRefs[o] >= 1
           /\ (\E i \in 1 .. Len(hScope) : hScope[i] = o) => hRefs[o] >= 1
           /\ (\E i \in 1 .. Len(hDropping) : hDropping[i] = o) =>
                 /\ hRefs[o] >= 1
                 /\ (\E s \in Slots : hSlots[s] = o) => hRefs[o] >= 2
                 /\ (\E p \in Native!Counted : o \in hHolds[p]) => hRefs[o] >= 2
                 /\ (\E i \in 1 .. Len(hScope) : hScope[i] = o) => hRefs[o] >= 2
  <1> DEFINE a == Cardinality(SlotsOf(hSlots, o))
             b == Cardinality(HoldersOf(hHolds, o))
             c == Cardinality(PlacesOf(hScope, o))
             d == Cardinality(PlacesOf(hDropping, o))
  <1>1. /\ IsFiniteSet(SlotsOf(hSlots, o)) /\ IsFiniteSet(HoldersOf(hHolds, o))
        /\ IsFiniteSet(PlacesOf(hScope, o)) /\ IsFiniteSet(PlacesOf(hDropping, o))
        /\ a \in Nat /\ b \in Nat /\ c \in Nat /\ d \in Nat
    BY OwnersAreFinite DEF HandlesTypes
  <1>2. hRefs[o] = a + b + c + d
    BY DEF HandlesCounts, OwnersOf
  <1>3. (\E s \in Slots : hSlots[s] = o) => a # 0
    <2>1. (\E s \in Slots : hSlots[s] = o) => SlotsOf(hSlots, o) # {}
      BY DEF SlotsOf
    <2> QED
      BY <1>1, <2>1, FS_EmptySet
  <1>4. (\E p \in Native!Counted : o \in hHolds[p]) => b # 0
    <2>1. (\E p \in Native!Counted : o \in hHolds[p]) => HoldersOf(hHolds, o) # {}
      BY DEF HoldersOf
    <2> QED
      BY <1>1, <2>1, FS_EmptySet
  <1>5. (\E i \in 1 .. Len(hScope) : hScope[i] = o) => c # 0
    <2>1. (\E i \in 1 .. Len(hScope) : hScope[i] = o) => PlacesOf(hScope, o) # {}
      BY DEF PlacesOf
    <2> QED
      BY <1>1, <2>1, FS_EmptySet
  <1>6. (\E i \in 1 .. Len(hDropping) : hDropping[i] = o) => d # 0
    <2>1. (\E i \in 1 .. Len(hDropping) : hDropping[i] = o) => PlacesOf(hDropping, o) # {}
      BY DEF PlacesOf
    <2> QED
      BY <1>1, <2>1, FS_EmptySet
  <1> HIDE DEF a, b, c, d
  <1> QED
    BY <1>1, <1>2, <1>3, <1>4, <1>5, <1>6

(* An object that is counted has an owner. *)
LEMMA CountedIsOwned ==
    ASSUME HandlesTypes, HandlesCounts, NEW o \in Native!Counted, hRefs[o] > 0
    PROVE  \/ \E s \in Slots : hSlots[s] = o
           \/ \E p \in Native!Counted : o \in hHolds[p]
           \/ \E i \in 1 .. Len(hScope) : hScope[i] = o
           \/ \E i \in 1 .. Len(hDropping) : hDropping[i] = o
  <1>1. SUFFICES ASSUME ~(\E s \in Slots : hSlots[s] = o),
                        ~(\E p \in Native!Counted : o \in hHolds[p]),
                        ~(\E i \in 1 .. Len(hScope) : hScope[i] = o),
                        ~(\E i \in 1 .. Len(hDropping) : hDropping[i] = o)
                 PROVE  FALSE
    OBVIOUS
  <1>2. SlotsOf(hSlots, o) = {} /\ HoldersOf(hHolds, o) = {}
    BY <1>1 DEF SlotsOf, HoldersOf
  <1>3. PlacesOf(hScope, o) = {} /\ PlacesOf(hDropping, o) = {}
    BY <1>1 DEF PlacesOf
  <1>4. OwnersOf(o) = 0
    BY <1>2, <1>3, FS_EmptySet DEF OwnersOf
  <1> QED
    BY <1>4 DEF HandlesCounts

(* What is kept is there. *)
LEMMA KeptIsThere ==
    ASSUME HandlesTypes, HandlesCounts, NEW H \in SUBSET Native!Counted, Kept(H), NEW x \in H
    PROVE  /\ hRefs[x] >= 1
           /\ (\E i \in 1 .. Len(hDropping) : hDropping[i] = x) => hRefs[x] >= 2
  <1>1. x \in Native!Counted
    OBVIOUS
  <1>2. \/ \E i \in 1 .. Len(hScope) : hScope[i] = x
        \/ \E s \in Slots : hSlots[s] = x
        \/ \E p \in Native!Counted : x \in hHolds[p]
    BY DEF Kept, HandlesTypes
  <1> QED
    BY <1>1, <1>2, OwnedIsCounted

(* A call into OpenSSL with objects that are kept looks at nothing else    *)
(* than objects that are there.                                            *)
LEMMA TouchedIsThere ==
    ASSUME HandlesTypes, HandlesCounts, NEW H \in SUBSET Native!Counted, Kept(H),
           \A p \in Native!Counted : hPoints[p] \subseteq H, NEW set \in SUBSET H
    PROVE  Native!Touched(set) = {}
  <1> DEFINE T == {o \in Native!Counted : hRefs[o] > 0}
  <1>1. H \subseteq T
    BY KeptIsThere DEF HandlesTypes
  <1>2. ASSUME NEW S \in SUBSET T
        PROVE  Native!OneMore(S) \in SUBSET T
    <2>1. ASSUME NEW o \in S
          PROVE  hHolds[o] \union hPoints[o] \subseteq T
      <3>1. o \in Native!Counted /\ hHolds[o] \subseteq Native!Counted
        BY DEF HandlesTypes
      <3>2. \A x \in hHolds[o] : hRefs[x] >= 1
        BY <3>1, OwnedIsCounted
      <3> QED
        BY <1>1, <3>1, <3>2 DEF HandlesTypes
    <2> HIDE DEF T
    <2> QED
      BY <2>1 DEF Native!OneMore
  <1> HIDE DEF T
  <1>3. set \in SUBSET T
    BY <1>1
  <1>4. Native!OneMore(set) \in SUBSET T
    BY <1>2, <1>3
  <1>5. Native!OneMore(Native!OneMore(set)) \in SUBSET T
    BY <1>2, <1>4
  <1>6. Native!Reach(set) \in SUBSET T
    BY <1>2, <1>5 DEF Native!Reach
  <1>7. \A o \in Native!Reach(set) : hRefs[o] > 0
    BY <1>6 DEF T
  <1> QED
    BY <1>7 DEF Native!Touched, HandlesTypes

(* A control block is owned by variables of the caller alone, and as long  *)
(* as a variable is empty there is one that is free.                       *)
LEMMA FreeBlockIsFree ==
    ASSUME HandlesTypes, HandlesCounts, HandlesShape, hDropping = <<>>,
           NEW s \in Slots, hSlots[s] = "null"
    PROVE  Native!FreeBlock \in Blocks /\ hRefs[Native!FreeBlock] = 0
  <1>1. ASSUME \A b \in Blocks : hRefs[b] # 0
        PROVE  FALSE
    <2>1. ASSUME NEW b \in Blocks
          PROVE  \E t \in Slots : hSlots[t] = b
      <3>1. b \in Native!Counted /\ hRefs[b] > 0
        BY <1>1, KindsDiffer DEF HandlesTypes
      <3>2. ~ \E p \in Native!Counted : b \in hHolds[p]
        <4>1. ASSUME NEW p \in Native!Counted, b \in hHolds[p]
              PROVE  FALSE
          <5>1. MayHold(p, b)
            BY <4>1 DEF HandlesShape
          <5>2. b \notin Certs \union Crls \union Keys \union Native!Locals
            BY KindsDiffer
          <5> QED
            BY <5>1, <5>2, ObjectFacts DEF MayHold, KeyObjects, Native!Locals
        <4> QED
          BY <4>1
      <3>3. ~ \E i \in 1 .. Len(hScope) : hScope[i] = b
        <4>1. b \notin InScope
          BY KindsDiffer DEF InScope
        <4> QED
          BY <4>1, ElementOfSeq DEF HandlesTypes
      <3>4. ~ \E i \in 1 .. Len(hDropping) : hDropping[i] = b
        BY EmptySeq
      <3> QED
        BY <3>1, <3>2, <3>3, <3>4, CountedIsOwned
    <2> DEFINE R == Slots \ {s}
               f == [b \in Blocks |-> CHOOSE t \in Slots : hSlots[t] = b]
    <2>2. \A b \in Blocks : f[b] \in Slots /\ hSlots[f[b]] = b
      BY <2>1
    <2>3. \A b \in Blocks : f[b] \in R
      BY <2>2, KindsDiffer
    <2>4. f \in [Blocks -> R]
      BY <2>3
    <2>5. IsFiniteSet(R) /\ Cardinality(R) = Cardinality(Slots) - 1
      BY ObjectFacts, FS_RemoveElement
    <2>6. Cardinality(Slots) \in Nat
      BY ObjectFacts, FS_CardinalityType
    <2> HIDE DEF R, f
    <2>7. \E x, y \in Blocks : x # y /\ f[x] = f[y]
      <3>1. Cardinality(R) < Cardinality(Blocks)
        BY <2>5, <2>6, ObjectFacts
      <3> QED
        BY <2>4, <2>5, <3>1, ObjectFacts, FS_PigeonHole
    <2> QED
      BY <2>2, <2>7
  <1>2. \E b \in Blocks : hRefs[b] = 0
    BY <1>1
  <1> QED
    BY <1>2 DEF Native!FreeBlock

(* Between two calls the objects that only locals own are gone, nothing    *)
(* points anywhere, and everything else that is there has a holder.        *)
LEMMA IdleIsClean ==
    ASSUME HandlesTypes, HandlesCounts, HandlesShape, hScope = <<>>, hDropping = <<>>
    PROVE  /\ \A b \in Blocks : hRefs[b] > 0 => \E s \in Slots : hSlots[s] = b
           /\ \A o \in Native!Counted \ Blocks : hRefs[o] > 0 =>
                 \E p \in Native!Counted : o \in hHolds[p] /\ MayHold(p, o) /\ hRefs[p] > 0
           /\ \A o \in Pointers \union {"store", "keyCtx", "sig", "mctx"} :
                 o \in Native!Counted /\ hRefs[o] = 0
           /\ \A p \in Native!Counted : hPoints[p] = {}
           /\ \A p \in Native!Counted : LoneObjects \intersect hHolds[p] = {}
  <1>1. ASSUME NEW o \in Native!Counted, hRefs[o] > 0
        PROVE  \/ \E s \in Slots : hSlots[s] = o
               \/ \E p \in Native!Counted : o \in hHolds[p] /\ MayHold(p, o) /\ hRefs[p] > 0
    <2>1. ~ \E i \in 1 .. Len(hScope) : hScope[i] = o
      BY EmptySeq
    <2>2. ~ \E i \in 1 .. Len(hDropping) : hDropping[i] = o
      BY EmptySeq
    <2>3. \/ \E s \in Slots : hSlots[s] = o
          \/ \E p \in Native!Counted : o \in hHolds[p]
      BY <1>1, <2>1, <2>2, CountedIsOwned
    <2>4. ASSUME NEW p \in Native!Counted, o \in hHolds[p]
          PROVE  MayHold(p, o) /\ hRefs[p] > 0
      <3>1. hRefs[p] \in Nat /\ hRefs[p] # 0 /\ MayHold(p, o)
        BY <2>4 DEF HandlesShape, HandlesTypes
      <3>2. hRefs[p] > 0
        BY <3>1
      <3> QED
        BY <3>1, <3>2
    <2> QED
      BY <2>3, <2>4, Zenon
  <1>2. ASSUME NEW b \in Blocks, hRefs[b] > 0
        PROVE  \E s \in Slots : hSlots[s] = b
    <2>1. b \in Native!Counted /\ b \notin Certs \union Crls \union Keys \union Native!Locals
      BY KindsDiffer
    <2>2. \A p : ~MayHold(p, b)
      BY <2>1, ObjectFacts DEF MayHold, KeyObjects, Native!Locals
    <2> QED
      BY <1>1, <1>2, <2>1, <2>2
  <1>3. ASSUME NEW o \in Native!Counted \ Blocks, hRefs[o] > 0
        PROVE  \E p \in Native!Counted : o \in hHolds[p] /\ MayHold(p, o) /\ hRefs[p] > 0
    <2>1. ~ \E s \in Slots : hSlots[s] = o
      BY KindsDiffer DEF HandlesTypes
    <2> QED
      BY <1>1, <1>3, <2>1
  <1>4. ASSUME NEW o \in Pointers \union {"store", "keyCtx", "sig", "mctx"}
        PROVE  o \in Native!Counted /\ hRefs[o] = 0
    <2>1. o \in Native!Locals /\ o \notin {"pkey", "req", "label", "r", "s", "ecKey"}
      BY DEF Pointers, Native!Locals
    <2>2. o \in Native!Counted \ Blocks /\ o \notin Certs \union Crls \union Keys
      BY <2>1, KindsDiffer
    <2>3. \A p : ~MayHold(p, o)
      BY <2>1, <2>2, ObjectFacts DEF MayHold, KeyObjects
    <2>4. ~(hRefs[o] > 0)
      BY <1>3, <2>2, <2>3
    <2> QED
      BY <2>2, <2>4 DEF HandlesTypes
  <1>5. ASSUME NEW p \in Native!Counted
        PROVE  hPoints[p] = {}
    BY <1>4 DEF HandlesShape
  <1>6. ASSUME NEW p \in Native!Counted, NEW o \in LoneObjects, o \in hHolds[p]
        PROVE  FALSE
    <2>1. o \in Native!Locals /\ o \notin {"pkey", "req", "ecKey"}
      BY DEF LoneObjects, Native!Locals
    <2>2. o \notin Certs \union Crls \union Keys
      BY <2>1, KindsDiffer
    <2>3. MayHold(p, o) /\ hRefs[p] # 0
      BY <1>6 DEF HandlesShape
    <2>4. p = "keyCtx" \/ p = "sig"
      BY <2>1, <2>2, <2>3, ObjectFacts DEF MayHold, KeyObjects
    <2> QED
      BY <1>4, <2>3, <2>4
  <1> QED
    BY <1>2, <1>3, <1>4, <1>5, <1>6

(* The holders lead from every object that is there to a variable of the   *)
(* caller in three steps at most.                                          *)
LEMMA NothingIsLost ==
    ASSUME HandlesTypes, HandlesCounts, HandlesShape
    PROVE  Native!NothingLeaks
  <1> DEFINE B == {hSlots[s] : s \in Slots} \ {"null"}
             One == Native!OneMore(B)
             Two == Native!OneMore(One)
             Three == Native!OneMore(Two)
             T == {o \in Native!Counted : hRefs[o] > 0}
  <1> SUFFICES ASSUME hScope = <<>>, hDropping = <<>>, NEW o \in T
               PROVE  o \in Three
    BY DEF Native!NothingLeaks, Native!Idle, Native!Reach, Native!Null
  <1>1. \A S : S \subseteq Native!OneMore(S)
    BY DEF Native!OneMore
  <1>2. B \subseteq One /\ One \subseteq Two /\ Two \subseteq Three
    <2> HIDE DEF B
    <2> QED
      BY <1>1
  <1>3. \A S : \A p \in S : hHolds[p] \subseteq Native!OneMore(S)
    BY DEF Native!OneMore
  <1>4. /\ \A p \in B : hHolds[p] \subseteq One
        /\ \A p \in One : hHolds[p] \subseteq Two
        /\ \A p \in Two : hHolds[p] \subseteq Three
    <2> HIDE DEF B
    <2> QED
      BY <1>3
  <1>5. \A b \in T \intersect Blocks : b \in B
    BY IdleIsClean, KindsDiffer
  <1> HIDE DEF B, One, Two, Three
  <1>6. ASSUME NEW x \in T, x \notin Blocks
        PROVE  \E p \in T : x \in hHolds[p] /\ MayHold(p, x) /\ p \notin {"store", "keyCtx", "sig", "mctx"}
    <2>1. PICK p \in Native!Counted : x \in hHolds[p] /\ MayHold(p, x) /\ hRefs[p] > 0
      BY <1>6, IdleIsClean
    <2>2. p \notin {"store", "keyCtx", "sig", "mctx"}
      <3>1. \A q \in {"store", "keyCtx", "sig", "mctx"} : hRefs[q] = 0
        BY IdleIsClean
      <3> QED
        BY <2>1, <3>1
    <2>3. p \in T
      BY <2>1
    <2> HIDE DEF T
    <2> QED
      BY <2>1, <2>2, <2>3, Zenon
  <1>7. ASSUME NEW x \in T, x \in Certs \union {"req"}
        PROVE  x \in One
    <2>1. x \notin Blocks /\ x \notin Keys \union Crls \union {"pkey", "label", "r", "s", "ecKey"}
      BY <1>7, KindsDiffer DEF Native!Locals
    <2>2. PICK p \in T : x \in hHolds[p] /\ MayHold(p, x) /\ p \notin {"store", "keyCtx", "sig", "mctx"}
      BY <1>6, <2>1
    <2>3. p \in Blocks
      BY <2>1, <2>2, ObjectFacts DEF MayHold, KeyObjects
    <2> QED
      BY <1>4, <1>5, <2>2, <2>3
  <1>8. ASSUME "pkey" \in T
        PROVE  "pkey" \in Two
    <2>1. "pkey" \notin Blocks /\ "pkey" \notin Keys \union Crls \union Certs
      BY KindsDiffer DEF Native!Locals
    <2>2. PICK p \in T : "pkey" \in hHolds[p] /\ MayHold(p, "pkey") /\ p \notin {"store", "keyCtx", "sig", "mctx"}
      BY <1>6, <1>8, <2>1
    <2>3. p \in Blocks \/ p = "req"
      BY <2>1, <2>2, ObjectFacts DEF MayHold, KeyObjects
    <2>4. p \in One
      BY <1>2, <1>5, <1>7, <2>2, <2>3
    <2> QED
      BY <1>4, <2>2, <2>4
  <1>9. CASE o \in Blocks
    BY <1>2, <1>5, <1>9
  <1>10. CASE o \notin Blocks
    <2>1. PICK p \in T : o \in hHolds[p] /\ MayHold(p, o) /\ p \notin {"store", "keyCtx", "sig", "mctx"}
      BY <1>6, <1>10
    <2>2. p \in Blocks \/ p \in Certs \union {"req"} \/ p = "pkey"
      BY <2>1 DEF MayHold
    <2>3. p \in Two
      BY <1>2, <1>5, <1>7, <1>8, <2>1, <2>2
    <2> QED
      BY <1>4, <2>1, <2>3
  <1> QED
    BY <1>9, <1>10

(* The invariant implies what is checked of the handles. *)
LEMMA HandlesIInvSuffices ==
    ASSUME HandlesIInv
    PROVE  OwnershipIsSound
  <1>0. HandlesTypes /\ HandlesCounts /\ HandlesShape
    BY DEF HandlesIInv
  <1>1. Native!TypeOK
    <2>1. \A s \in Slots : hSlots[s] # "null" => hRefs[hSlots[s]] > 0
      <3>1. ASSUME NEW s \in Slots, hSlots[s] # "null"
            PROVE  hRefs[hSlots[s]] > 0
        <4>1. hSlots[s] \in Native!Counted
          BY <1>0, <3>1, KindsDiffer DEF HandlesTypes
        <4>2. hRefs[hSlots[s]] >= 1 /\ hRefs[hSlots[s]] \in Nat
          BY <1>0, <4>1, OwnedIsCounted DEF HandlesTypes
        <4> QED
          BY <4>2
      <3> QED
        BY <3>1
    <2>2. Native!ToSet(hScope) \subseteq Native!Locals \union Keys \union {"null"}
      <3>1. \A i \in DOMAIN hScope : hScope[i] \in InScope
        BY <1>0, ElementOfSeq, LenProperties DEF HandlesTypes
      <3> QED
        BY <3>1 DEF Native!ToSet, InScope
    <2>3. hCalls <= MaxCalls /\ hRefs \in [Native!Counted -> Nat]
      BY <1>0, ObjectFacts DEF HandlesTypes
    <2> QED
      BY <2>1, <2>2, <2>3 DEF Native!TypeOK, Native!Null
  <1>2. Native!CountsAreRight
    <2>1. ASSUME NEW o \in Native!Counted
          PROVE  hRefs[o] = Native!Cardinality({s \in Slots : hSlots[s] = o})
                            + Native!Cardinality({p \in {q \in Native!Counted : hHolds[q] # {}} : o \in hHolds[p]})
                            + Native!Occurrences(hScope, o) + Native!Occurrences(hDropping, o)
      <3>1. {p \in {q \in Native!Counted : hHolds[q] # {}} : o \in hHolds[p]} = HoldersOf(hHolds, o)
        BY DEF HoldersOf
      <3>2. {s \in Slots : hSlots[s] = o} = SlotsOf(hSlots, o)
        BY DEF SlotsOf
      <3>3. /\ Native!Occurrences(hScope, o) = Cardinality(PlacesOf(hScope, o))
            /\ Native!Occurrences(hDropping, o) = Cardinality(PlacesOf(hDropping, o))
        BY HandlesFiniteSets DEF Native!Occurrences, PlacesOf
      <3>4. hRefs[o] = OwnersOf(o)
        BY <1>0 DEF HandlesCounts
      <3> QED
        BY <3>1, <3>2, <3>3, <3>4, HandlesFiniteSets DEF OwnersOf
    <2> QED
      BY <2>1 DEF Native!CountsAreRight
  <1>3. Native!MemoryIsSafe
    BY <1>0 DEF HandlesTypes, Native!MemoryIsSafe
  <1>4. Native!NothingLeaks
    BY <1>0, NothingIsLost
  <1> QED
    BY <1>1, <1>2, <1>3, <1>4 DEF OwnershipIsSound

(* Initially there is nothing. *)
LEMMA HandlesInit == Native!Init => HandlesIInv
  <1> SUFFICES ASSUME Native!Init
               PROVE  HandlesIInv
    OBVIOUS
  <1> USE DEF Native!Init, Native!Null
  <1>1. HandlesTypes
    BY ObjectFacts, EmptySeq DEF HandlesTypes
  <1>2. HandlesCounts
    <2> SUFFICES ASSUME NEW o \in Native!Counted
                 PROVE  hRefs[o] = OwnersOf(o)
      BY DEF HandlesCounts
    <2>1. SlotsOf(hSlots, o) = {} /\ HoldersOf(hHolds, o) = {}
      BY ObjectFacts DEF SlotsOf, HoldersOf
    <2>2. hScope = <<>> /\ hDropping = <<>> /\ hRefs[o] = 0
      OBVIOUS
    <2> HIDE DEF Native!Init
    <2>3. Cardinality(PlacesOf(hScope, o)) = 0 /\ Cardinality(PlacesOf(hDropping, o)) = 0
      BY <2>2, PlacesOfOne, Zenon
    <2>4. Cardinality(SlotsOf(hSlots, o)) = 0 /\ Cardinality(HoldersOf(hHolds, o)) = 0
      BY <2>1, FS_EmptySet
    <2> QED
      BY <2>2, <2>3, <2>4 DEF OwnersOf
  <1>3. HandlesShape
    BY KindsDiffer DEF HandlesShape
  <1>4. HandlesRun
    BY DEF HandlesRun
  <1> QED
    BY <1>1, <1>2, <1>3, <1>4 DEF HandlesIInv

(***************************************************************************)
(* What the caller and other threads do while a function runs.             *)
(***************************************************************************)

(* A step that leaves the running function, its arguments and all that     *)
(* they keep alone: the rest of the function is as safe as before.         *)
LEMMA RunGoesOn ==
    ASSUME HandlesRun, HandlesTypes,
           hScope' = hScope, hTodo' = hTodo, hArguments' = hArguments,
           \A s \in hArguments : hSlots'[s] = hSlots[s],
           \A p \in Native!Counted : hPoints'[p] \subseteq hPoints[p],
           \A p \in Native!Counted : LoneObjects \intersect hHolds'[p] \subseteq hHolds[p],
           \A H \in SUBSET Native!Counted : Kept(H) => \A p \in H : hHolds[p] \subseteq hHolds'[p]
    PROVE  HandlesRun'
  <1> SUFFICES ASSUME hTodo # <<>>
               PROVE  \E H \in SUBSET Native!Counted, f, g \in Frames : RunIsSafe(H, f, g)'
    BY DEF HandlesRun
  <1>1. PICK H \in SUBSET Native!Counted, f \in Frames, g \in Frames : RunIsSafe(H, f, g)
    BY DEF HandlesRun
  <1>2. Kept(H)'
    <2>1. ASSUME NEW x \in H
          PROVE  \/ \E i \in 1 .. Len(hScope') : hScope'[i] = x
                 \/ \E s \in hArguments' : hSlots'[s] = x
                 \/ \E p \in H : x \in hHolds'[p]
      <3>1. \/ \E i \in 1 .. Len(hScope) : hScope[i] = x
            \/ \E s \in hArguments : hSlots[s] = x
            \/ \E p \in H : x \in hHolds[p]
        BY <1>1 DEF RunIsSafe, Kept
      <3>2. \A p \in H : hHolds[p] \subseteq hHolds'[p]
        BY <1>1 DEF RunIsSafe
      <3>3. CASE \E i \in 1 .. Len(hScope) : hScope[i] = x
        BY <3>3, Zenon
      <3>4. CASE \E s \in hArguments : hSlots[s] = x
        BY <3>4
      <3>5. CASE \E p \in H : x \in hHolds[p]
        BY <3>2, <3>5
      <3> QED
        BY <3>1, <3>3, <3>4, <3>5
    <2> QED
      BY <2>1 DEF Kept
  <1>3. \A p \in Native!Counted : hPoints'[p] \subseteq H
    BY <1>1 DEF RunIsSafe
  <1>4. \A p \in Native!Counted : f.apart \intersect hHolds'[p] = {}
    <2>1. f.apart \subseteq LoneObjects
      BY DEF Frames
    <2> QED
      BY <1>1, <2>1 DEF RunIsSafe
  <1>5. f.scope = hScope' /\ f.ready \subseteq H /\ Safely(hTodo', f, g)
    <2>1. f.scope = hScope /\ f.ready \subseteq H /\ Safely(hTodo, f, g)
      BY <1>1 DEF RunIsSafe
    <2> QED
      BY <2>1, Zenon
  <1>6. RunIsSafe(H, f, g)'
    BY <1>2, <1>3, <1>4, <1>5, Zenon DEF RunIsSafe
  <1> QED
    BY <1>6

(* The counts of an object, kind by kind. *)
LEMMA CountsAreSums ==
    ASSUME HandlesTypes, HandlesCounts, NEW o \in Native!Counted
    PROVE  /\ Cardinality(SlotsOf(hSlots, o)) \in Nat
           /\ Cardinality(HoldersOf(hHolds, o)) \in Nat
           /\ Cardinality(PlacesOf(hScope, o)) \in Nat
           /\ Cardinality(PlacesOf(hDropping, o)) \in Nat
           /\ hRefs[o] \in Nat
           /\ hRefs[o] = Cardinality(SlotsOf(hSlots, o)) + Cardinality(HoldersOf(hHolds, o))
                         + Cardinality(PlacesOf(hScope, o)) + Cardinality(PlacesOf(hDropping, o))
BY OwnersAreFinite DEF HandlesTypes, HandlesCounts, OwnersOf

(* A copy of a handle is one more owner of its control block. *)
LEMMA CopyKeeps ==
    ASSUME HandlesIInv, NEW s \in Slots, NEW t \in Slots, Native!Copy(s, t)
    PROVE  HandlesIInv'
  <1> USE DEF Native!Null
  <1>0. HandlesTypes /\ HandlesCounts /\ HandlesShape /\ HandlesRun
    BY DEF HandlesIInv
  <1> DEFINE b == hSlots[t]
  <1>1. /\ hDropping = <<>> /\ hSlots[s] = "null" /\ b # "null"
        /\ hSlots' = [hSlots EXCEPT ![s] = b]
        /\ hRefs' = [o \in Native!Counted |-> IF o \in {b} THEN hRefs[o] + 1 ELSE hRefs[o]]
        /\ UNCHANGED <<hHolds, hPoints, hScope, hTodo, hArguments, hDropping, hFaults, hCalls>>
    BY DEF Native!Copy, Native!Plus
  <1>2. b \in Blocks /\ b \in Native!Counted
    BY <1>0, <1>1, KindsDiffer DEF HandlesTypes
  <1>3. hRefs[b] >= 1
    BY <1>0, <1>2, OwnedIsCounted
  <1> HIDE DEF b
  <1>4. HandlesTypes'
    BY <1>0, <1>1, <1>2 DEF HandlesTypes
  <1>5. HandlesCounts'
    <2> SUFFICES ASSUME NEW o \in Native!Counted
                 PROVE  hRefs'[o] = OwnersOf(o)'
      BY DEF HandlesCounts
    <2>1. Cardinality(SlotsOf(hSlots', o)) = Cardinality(SlotsOf(hSlots, o)) + Same(b, o)
      <3>1. hSlots \in [Slots -> Blocks \union {"null"}] /\ hSlots[s] # o
        BY <1>0, <1>1, ObjectFacts DEF HandlesTypes
      <3>2. hSlots'[s] = b /\ \A x \in Slots \ {s} : hSlots'[x] = hSlots[x]
        BY <1>1, <3>1
      <3> QED
        BY <3>1, <3>2, SlotsFilled
    <2>2. hRefs'[o] = hRefs[o] + Same(b, o)
      BY <1>0, <1>1 DEF HandlesTypes, Same, IsIn
    <2>3. OwnersOf(o)' = Cardinality(SlotsOf(hSlots', o)) + Cardinality(HoldersOf(hHolds, o))
                         + Cardinality(PlacesOf(hScope, o)) + Cardinality(PlacesOf(hDropping, o))
      BY <1>1 DEF OwnersOf
    <2>4. Same(b, o) \in Nat
      BY DEF Same, IsIn
    <2> QED
      BY <1>0, <2>1, <2>2, <2>3, <2>4, CountsAreSums
  <1>6. HandlesShape'
    <2>1. \A p \in Native!Counted :
             /\ hRefs'[p] = 0 => hRefs[p] = 0
             /\ hRefs'[p] > 0 => hRefs[p] > 0
      BY <1>0, <1>1, <1>3 DEF HandlesTypes
    <2>2. \A x \in hArguments : hSlots'[x] # "null"
      BY <1>0, <1>1 DEF HandlesTypes, HandlesShape
    <2> QED
      BY <1>0, <1>1, <2>1, <2>2, KindsDiffer DEF HandlesShape
  <1>7. HandlesRun'
    <2>1. \A x \in hArguments : hSlots'[x] = hSlots[x]
      BY <1>0, <1>1 DEF HandlesTypes, HandlesShape
    <2> QED
      BY <1>0, <1>1, <2>1, RunGoesOn
  <1> QED
    BY <1>4, <1>5, <1>6, <1>7 DEF HandlesIInv

(* The reference of a variable that ends is on its way back. *)
LEMMA DestroyKeeps ==
    ASSUME HandlesIInv, NEW s \in Slots, Native!Destroy(s)
    PROVE  HandlesIInv'
  <1> USE DEF Native!Null
  <1>0. HandlesTypes /\ HandlesCounts /\ HandlesShape /\ HandlesRun
    BY DEF HandlesIInv
  <1> DEFINE b == hSlots[s]
  <1>1. /\ hDropping = <<>> /\ b # "null" /\ s \notin hArguments
        /\ hDropping' = <<b>>
        /\ hSlots' = [hSlots EXCEPT ![s] = "null"]
        /\ UNCHANGED <<hRefs, hHolds, hPoints, hScope, hTodo, hArguments, hFaults, hCalls>>
    BY DEF Native!Destroy, Native!heap
  <1>2. b \in Blocks /\ b \in Native!Counted
    BY <1>0, <1>1, KindsDiffer DEF HandlesTypes
  <1>3. hSlots = [hSlots' EXCEPT ![s] = b]
    BY <1>0, <1>1 DEF HandlesTypes
  <1> HIDE DEF b
  <1>4. HandlesTypes'
    <2>1. <<b>> \in Seq(Native!Counted)
      BY <1>2
    <2> QED
      BY <1>0, <1>1, <2>1 DEF HandlesTypes
  <1>5. HandlesCounts'
    <2> SUFFICES ASSUME NEW o \in Native!Counted
                 PROVE  hRefs'[o] = OwnersOf(o)'
      BY DEF HandlesCounts
    <2>1. Cardinality(SlotsOf(hSlots, o)) = Cardinality(SlotsOf(hSlots', o)) + Same(b, o)
      <3>1. hSlots' \in [Slots -> Blocks \union {"null"}] /\ hSlots'[s] # o
        BY <1>0, <1>1, ObjectFacts DEF HandlesTypes
      <3>2. hSlots[s] = b /\ \A x \in Slots \ {s} : hSlots[x] = hSlots'[x]
        BY <1>3, <3>1
      <3> QED
        BY <3>1, <3>2, SlotsFilled
    <2>2. /\ Cardinality(PlacesOf(hDropping, o)) = 0
          /\ Cardinality(PlacesOf(hDropping', o)) = Same(b, o)
      BY <1>1, PlacesOfOne, Zenon
    <2>3. OwnersOf(o)' = Cardinality(SlotsOf(hSlots', o)) + Cardinality(HoldersOf(hHolds, o))
                         + Cardinality(PlacesOf(hScope, o)) + Cardinality(PlacesOf(hDropping', o))
      BY <1>1 DEF OwnersOf
    <2>4. Same(b, o) \in Nat /\ Cardinality(SlotsOf(hSlots', o)) \in Nat
      BY OwnersAreFinite DEF Same, IsIn
    <2>5. hRefs'[o] = hRefs[o]
      BY <1>1
    <2> QED
      BY <1>0, <2>1, <2>2, <2>3, <2>4, <2>5, CountsAreSums
  <1>6. HandlesShape'
    <2>1. \A x \in hArguments : hSlots'[x] # "null"
      BY <1>0, <1>1 DEF HandlesTypes, HandlesShape
    <2> QED
      BY <1>0, <1>1, <2>1 DEF HandlesShape
  <1>7. HandlesRun'
    <2>1. \A x \in hArguments : hSlots'[x] = hSlots[x]
      BY <1>0, <1>1 DEF HandlesTypes
    <2> QED
      BY <1>0, <1>1, <2>1, RunGoesOn
  <1> QED
    BY <1>4, <1>5, <1>6, <1>7 DEF HandlesIInv

(* A loaded certificate, key or revocation list belongs to a new handle,   *)
(* and the key of a certificate to the certificate.                        *)
LEMMA LoadKeeps ==
    ASSUME HandlesIInv, NEW s \in Slots, NEW x \in Certs \union Crls \union Keys,
           Native!Load(s, x)
    PROVE  HandlesIInv'
  <1> USE DEF Native!Null
  <1>0. HandlesTypes /\ HandlesCounts /\ HandlesShape /\ HandlesRun
    BY DEF HandlesIInv
  <1> DEFINE b == Native!FreeBlock
             parts == IF x \in Certs THEN {KeyOf[x]} ELSE {}
             C == Native!Counted
  <1>1. /\ hCalls < MaxCalls /\ hDropping = <<>> /\ hSlots[s] = "null" /\ hRefs[x] = 0
        /\ \A k \in parts : hRefs[k] = 0
        /\ hRefs' = [[o \in C |-> IF o \in {x} \union parts THEN hRefs[o] + 1 ELSE hRefs[o]]
                       EXCEPT ![b] = 1]
        /\ hHolds' = [hHolds EXCEPT ![b] = {x}, ![x] = parts]
        /\ hSlots' = [hSlots EXCEPT ![s] = b]
        /\ hCalls' = hCalls + 1
        /\ UNCHANGED <<hPoints, hScope, hTodo, hArguments, hDropping, hFaults>>
    BY DEF Native!Load, Native!Plus
  <1>2. /\ b \in Blocks /\ b \in C /\ hRefs[b] = 0 /\ x \in C /\ x # b /\ x \notin Native!Locals
        /\ parts \subseteq Keys /\ parts \subseteq C /\ x \notin parts /\ b \notin parts
    BY <1>0, <1>1, FreeBlockIsFree, KindsDiffer, ObjectFacts
  <1>3. \A o \in parts : MayHold(x, o)
    BY DEF MayHold
  <1>4. MayHold(b, x)
    BY <1>2 DEF MayHold, KeyObjects
  <1>5. x \in Certs => KeyOf[x] \in parts
    OBVIOUS
  <1> HIDE DEF b, parts
  <1>6. hHolds[b] = {} /\ hHolds[x] = {} /\ hPoints[b] = {} /\ hPoints[x] = {}
    BY <1>0, <1>1, <1>2 DEF HandlesShape
  <1>7. /\ hRefs'[b] = 1
        /\ \A o \in C \ {b} : hRefs'[o] = hRefs[o] + IsIn(o, {x} \union parts)
        /\ hRefs' \in [C -> Nat]
    BY <1>0, <1>1, <1>2 DEF HandlesTypes, IsIn
  <1>8. /\ hHolds'[b] = {x} /\ hHolds'[x] = parts
        /\ \A p \in C \ {b, x} : hHolds'[p] = hHolds[p]
        /\ hHolds' \in [C -> SUBSET C]
    BY <1>0, <1>1, <1>2 DEF HandlesTypes
  <1>9. hSlots'[s] = b /\ \A t \in Slots \ {s} : hSlots'[t] = hSlots[t]
    BY <1>0, <1>1 DEF HandlesTypes
  <1>10. HandlesTypes'
    <2>1. hSlots' \in [Slots -> Blocks \union {"null"}]
      BY <1>0, <1>1, <1>2 DEF HandlesTypes
    <2>2. hCalls' \in 0 .. MaxCalls
      BY <1>0, <1>1, ObjectFacts DEF HandlesTypes
    <2> QED
      BY <1>0, <1>1, <1>7, <1>8, <2>1, <2>2 DEF HandlesTypes
  <1>11. HandlesCounts'
    <2> SUFFICES ASSUME NEW o \in C
                 PROVE  hRefs'[o] = OwnersOf(o)'
      BY DEF HandlesCounts
    <2>1. Cardinality(SlotsOf(hSlots', o)) = Cardinality(SlotsOf(hSlots, o)) + Same(b, o)
      <3>1. hSlots \in [Slots -> Blocks \union {"null"}] /\ hSlots[s] # o
        BY <1>0, <1>1, ObjectFacts DEF HandlesTypes
      <3> QED
        BY <1>9, <3>1, SlotsFilled
    <2>2. Cardinality(HoldersOf(hHolds', o))
          = Cardinality(HoldersOf(hHolds, o)) + IsIn(o, {x}) + IsIn(o, parts)
      <3> DEFINE h == [hHolds EXCEPT ![b] = {x}]
      <3>1. /\ hHolds \in [C -> SUBSET C] /\ h \in [C -> SUBSET C]
            /\ h[b] = {x} /\ \A q \in C \ {b} : h[q] = hHolds[q]
        BY <1>0, <1>2 DEF HandlesTypes
      <3>2. /\ h[x] = {} /\ hHolds'[x] = parts
            /\ \A q \in C \ {x} : hHolds'[q] = h[q]
        BY <1>2, <1>6, <1>8, <3>1
      <3> HIDE DEF h
      <3>3. Cardinality(HoldersOf(h, o)) = Cardinality(HoldersOf(hHolds, o)) + IsIn(o, {x})
        <4>1. hHolds[b] \intersect {x} = {} /\ h[b] = hHolds[b] \union {x}
          BY <1>6, <3>1
        <4> QED
          BY <1>2, <3>1, <4>1, HoldersGrow
      <3>4. Cardinality(HoldersOf(hHolds', o)) = Cardinality(HoldersOf(h, o)) + IsIn(o, parts)
        <4>1. h[x] \intersect parts = {} /\ hHolds'[x] = h[x] \union parts
          BY <3>2
        <4> QED
          BY <1>2, <3>1, <3>2, <4>1, HoldersGrow
      <3> QED
        BY <3>3, <3>4
    <2>3. OwnersOf(o)' = Cardinality(SlotsOf(hSlots', o)) + Cardinality(HoldersOf(hHolds', o))
                         + Cardinality(PlacesOf(hScope, o)) + Cardinality(PlacesOf(hDropping, o))
      BY <1>1 DEF OwnersOf
    <2>4. IsIn(o, {x} \union parts) = IsIn(o, {x}) + IsIn(o, parts)
      BY <1>2 DEF IsIn
    <2>5. o = b => IsIn(o, {x}) = 0 /\ IsIn(o, parts) = 0 /\ Same(b, o) = 1
      BY <1>2 DEF IsIn, Same
    <2>6. o # b => Same(b, o) = 0
      BY DEF Same
    <2>7. IsIn(o, {x}) \in Nat /\ IsIn(o, parts) \in Nat
      BY DEF IsIn
    <2>8. /\ Cardinality(SlotsOf(hSlots, o)) \in Nat
          /\ Cardinality(HoldersOf(hHolds, o)) \in Nat
          /\ Cardinality(PlacesOf(hScope, o)) \in Nat
          /\ Cardinality(PlacesOf(hDropping, o)) \in Nat
          /\ hRefs[o] = Cardinality(SlotsOf(hSlots, o)) + Cardinality(HoldersOf(hHolds, o))
                        + Cardinality(PlacesOf(hScope, o)) + Cardinality(PlacesOf(hDropping, o))
      BY <1>0, CountsAreSums
    <2>9. CASE o = b
      <3>1. hRefs[o] = 0 /\ hRefs'[o] = 1
        BY <1>2, <1>7, <2>9
      <3> QED
        BY <2>1, <2>2, <2>3, <2>5, <2>8, <2>9, <3>1
    <2>10. CASE o # b
      <3>1. hRefs'[o] = hRefs[o] + IsIn(o, {x}) + IsIn(o, parts)
        BY <1>0, <1>7, <2>4, <2>7, <2>10 DEF HandlesTypes
      <3> QED
        BY <2>1, <2>2, <2>3, <2>6, <2>7, <2>8, <2>10, <3>1
    <2> QED
      BY <2>9, <2>10
  <1>12. HandlesShape'
    <2>1. \A p \in C : \A o \in hHolds'[p] : MayHold(p, o)
      <3>1. ASSUME NEW p \in C, NEW o \in hHolds'[p]
            PROVE  MayHold(p, o)
        <4>1. CASE p = b
          <5>1. o = x
            BY <1>8, <3>1, <4>1
          <5> QED
            BY <1>4, <4>1, <5>1
        <4>2. CASE p = x
          <5>1. o \in parts
            BY <1>8, <3>1, <4>2
          <5> QED
            BY <1>3, <4>2, <5>1
        <4>3. CASE p # b /\ p # x
          <5>1. o \in hHolds[p]
            BY <1>8, <3>1, <4>3
          <5> QED
            BY <1>0, <5>1 DEF HandlesShape
        <4> QED
          BY <4>1, <4>2, <4>3
      <3> QED
        BY <3>1
    <2>2. \A p \in C : hRefs'[p] = 0 => hRefs[p] = 0 /\ p # b /\ p # x
      BY <1>0, <1>2, <1>7, SMTT(30) DEF HandlesTypes, IsIn
    <2>3. \A p \in C : hRefs'[p] = 0 => hHolds'[p] = {} /\ hPoints'[p] = {}
      BY <1>0, <1>1, <1>8, <2>2 DEF HandlesShape
    <2>4. \A p \in Blocks : hRefs'[p] > 0 => hHolds'[p] # {}
      <3>1. ASSUME NEW p \in Blocks, hRefs'[p] > 0
            PROVE  hHolds'[p] # {}
        <4>1. p \in C /\ p # x /\ p \notin parts
          BY <1>2, KindsDiffer
        <4>2. CASE p = b
          BY <1>8, <4>2
        <4>3. CASE p # b
          <5>1. hRefs'[p] = hRefs[p]
            BY <1>0, <1>7, <4>1, <4>3 DEF IsIn, HandlesTypes
          <5> QED
            BY <1>0, <1>8, <3>1, <4>1, <4>3, <5>1 DEF HandlesShape
        <4> QED
          BY <4>2, <4>3
      <3> QED
        BY <3>1
    <2>5. \A c \in Certs : hRefs'[c] > 0 => KeyOf[c] \in hHolds'[c]
      <3>1. ASSUME NEW c \in Certs, hRefs'[c] > 0
            PROVE  KeyOf[c] \in hHolds'[c]
        <4>1. c \in C /\ c # b /\ c \notin parts
          BY <1>2, KindsDiffer
        <4>2. CASE c = x
          BY <1>5, <1>8, <4>2
        <4>3. CASE c # x
          <5>1. hRefs'[c] = hRefs[c]
            BY <1>0, <1>7, <4>1, <4>3 DEF IsIn, HandlesTypes
          <5> QED
            BY <1>0, <1>8, <3>1, <4>1, <4>3, <5>1 DEF HandlesShape
        <4> QED
          BY <4>2, <4>3
      <3> QED
        BY <3>1
    <2>6. \A t \in hArguments : hSlots'[t] # "null"
      BY <1>0, <1>1, <1>9 DEF HandlesShape, HandlesTypes
    <2> QED
      BY <1>0, <1>1, <2>1, <2>3, <2>4, <2>5, <2>6 DEF HandlesShape
  <1>13. HandlesRun'
    <2>1. \A t \in hArguments : hSlots'[t] = hSlots[t]
      BY <1>0, <1>1, <1>9 DEF HandlesShape, HandlesTypes
    <2>2. \A p \in C : hHolds[p] \subseteq hHolds'[p]
      BY <1>6, <1>8
    <2>3. \A p \in C : LoneObjects \intersect hHolds'[p] \subseteq hHolds[p]
      <3>1. LoneObjects \subseteq Native!Locals
        BY DEF LoneObjects, Native!Locals
      <3>2. LoneObjects \intersect parts = {} /\ x \notin LoneObjects
        BY <1>2, <3>1, KindsDiffer
      <3> QED
        BY <1>8, <3>2
    <2>4. \A H \in SUBSET C : Kept(H) => \A p \in H : hHolds[p] \subseteq hHolds'[p]
      BY <2>2
    <2> QED
      BY <1>0, <1>1, <2>1, <2>3, <2>4, RunGoesOn
  <1> QED
    BY <1>10, <1>11, <1>12, <1>13 DEF HandlesIInv

(* A reference that is given back: the object loses an owner, and ends     *)
(* with the last one.  Then nothing that is kept had a reference of it.    *)
LEMMA DropKeeps ==
    ASSUME HandlesIInv, Native!DropNext
    PROVE  HandlesIInv'
  <1>0. HandlesTypes /\ HandlesCounts /\ HandlesShape /\ HandlesRun
    BY DEF HandlesIInv
  <1> DEFINE d == Head(hDropping)
             C == Native!Counted
             rest == Tail(hDropping)
  <1>1. hDropping # <<>> /\ hDropping \in Seq(C)
    BY <1>0 DEF Native!DropNext, HandlesTypes
  <1>2. d \in C /\ rest \in Seq(C)
    BY <1>1, HeadTailProperties
  <1>3. hRefs[d] \in Nat /\ hRefs[d] >= 1
    <2>1. \E i \in 1 .. Len(hDropping) : hDropping[i] = d
      <3>1. Len(hDropping) \in Nat \ {0}
        BY <1>1, EmptySeq
      <3>2. 1 \in 1 .. Len(hDropping) /\ hDropping[1] = d
        BY <3>1
      <3> QED
        BY <3>2
    <2> QED
      BY <1>0, <1>2, <2>1, OwnedIsCounted DEF HandlesTypes
  <1> DEFINE last == hRefs[d] = 1
             S == IF last THEN hHolds[d] ELSE {}
             back == IF last THEN Native!SetToSeq(hHolds[d]) ELSE <<>>
  <1>4. /\ hFaults' = hFaults
        /\ hRefs' = [hRefs EXCEPT ![d] = hRefs[d] - 1]
        /\ hHolds' = IF last THEN [hHolds EXCEPT ![d] = {}] ELSE hHolds
        /\ hPoints' = IF last THEN [hPoints EXCEPT ![d] = {}] ELSE hPoints
        /\ hDropping' = rest \o back
        /\ UNCHANGED <<hSlots, hScope, hTodo, hArguments, hCalls>>
    <2>1. hRefs[d] <= 1 <=> last
      BY <1>3
    <2>2. last => hRefs[d] - 1 = 0
      BY <1>3
    <2>3. /\ hFaults' = (IF hRefs[d] = 0 THEN hFaults \union {"double free"} ELSE hFaults)
          /\ hRefs' = [hRefs EXCEPT ![d] = IF hRefs[d] <= 1 THEN 0 ELSE hRefs[d] - 1]
          /\ hHolds' = (IF hRefs[d] <= 1 THEN [hHolds EXCEPT ![d] = {}] ELSE hHolds)
          /\ hPoints' = (IF hRefs[d] <= 1 THEN [hPoints EXCEPT ![d] = {}] ELSE hPoints)
          /\ hDropping' = rest \o (IF hRefs[d] <= 1 THEN Native!SetToSeq(hHolds[d]) ELSE <<>>)
          /\ UNCHANGED <<hSlots, hScope, hTodo, hArguments, hCalls>>
      BY DEF Native!DropNext, Native!Drop
    <2> HIDE DEF d, rest
    <2>4. hFaults' = hFaults
      <3>1. hRefs[d] # 0
        BY <1>3
      <3> QED
        BY <2>3, <3>1
    <2>5. hRefs' = [hRefs EXCEPT ![d] = hRefs[d] - 1]
      BY <2>1, <2>2, <2>3
    <2> QED
      BY <2>1, <2>3, <2>4, <2>5
  <1> HIDE DEF d, rest
  <1>5. /\ hRefs'[d] = hRefs[d] - 1 /\ hRefs' \in [C -> Nat]
        /\ \A o \in C \ {d} : hRefs'[o] = hRefs[o]
    BY <1>0, <1>2, <1>3, <1>4 DEF HandlesTypes
  <1>6. /\ hHolds[d] = hHolds'[d] \union S /\ hHolds'[d] \intersect S = {}
        /\ \A p \in C \ {d} : hHolds'[p] = hHolds[p]
        /\ hHolds' \in [C -> SUBSET C] /\ S \subseteq C
    BY <1>0, <1>2, <1>4 DEF HandlesTypes
  <1>7. /\ \A p \in C : hPoints'[p] \subseteq hPoints[p]
        /\ hPoints' \in [C -> SUBSET C]
    BY <1>0, <1>2, <1>4 DEF HandlesTypes
  <1>8. hRefs'[d] = 0 => hHolds'[d] = {} /\ hPoints'[d] = {}
    <2>1. hRefs'[d] = 0 => last
      BY <1>3, <1>5
    <2> QED
      BY <1>0, <1>2, <1>4, <2>1 DEF HandlesTypes
  <1>9. hRefs'[d] > 0 => hHolds'[d] = hHolds[d]
    <2>1. hRefs'[d] > 0 => ~last
      BY <1>3, <1>5
    <2> QED
      BY <1>4, <2>1
  <1>10. back \in Seq(C) /\ \A o \in C : Cardinality(PlacesOf(back, o)) = IsIn(o, S)
    <2>1. CASE last
      <3>1. IsFiniteSet(hHolds[d]) /\ hHolds[d] \subseteq C
        BY <1>0, <1>2, ObjectFacts, FS_Subset DEF HandlesTypes
      <3>2. /\ Native!SetToSeq(hHolds[d]) \in Seq(C)
            /\ \A o \in C : Cardinality(PlacesOf(Native!SetToSeq(hHolds[d]), o)) = IsIn(o, hHolds[d])
        BY <3>1, PlacesOfSet
      <3>3. back = Native!SetToSeq(hHolds[d]) /\ S = hHolds[d]
        BY <2>1
      <3> HIDE DEF back, S
      <3> QED
        BY <3>2, <3>3
    <2>2. CASE ~last
      <3>1. back = <<>> /\ S = {}
        BY <2>2
      <3>2. \A o \in C : IsIn(o, {}) = 0 /\ Cardinality(PlacesOf(<<>>, o)) = 0
        BY PlacesOfOne DEF IsIn
      <3>3. <<>> \in Seq(C)
        BY EmptySeq
      <3> HIDE DEF back, S
      <3> QED
        BY <3>1, <3>2, <3>3, Zenon
    <2> QED
      BY <2>1, <2>2
  <1> HIDE DEF back, S, last
  <1>11. HandlesTypes'
    <2>1. hDropping' \in Seq(C)
      BY <1>2, <1>4, <1>10, ConcatProperties
    <2> QED
      BY <1>0, <1>4, <1>5, <1>6, <1>7, <2>1 DEF HandlesTypes
  <1>12. HandlesCounts'
    <2> SUFFICES ASSUME NEW o \in C
                 PROVE  hRefs'[o] = OwnersOf(o)'
      BY DEF HandlesCounts
    <2>1. Cardinality(HoldersOf(hHolds, o)) = Cardinality(HoldersOf(hHolds', o)) + IsIn(o, S)
      <3>1. \A q \in C \ {d} : hHolds[q] = hHolds'[q]
        BY <1>6
      <3> QED
        BY <1>2, <1>6, <3>1, HoldersGrow
    <2>2. Cardinality(PlacesOf(hDropping, o)) = Cardinality(PlacesOf(rest, o)) + Same(d, o)
      BY <1>1, PlacesTail DEF rest, d
    <2>3. Cardinality(PlacesOf(hDropping', o)) = Cardinality(PlacesOf(rest, o)) + IsIn(o, S)
      <3>1. Cardinality(PlacesOf(rest \o back, o))
            = Cardinality(PlacesOf(rest, o)) + Cardinality(PlacesOf(back, o))
        BY <1>2, <1>10, PlacesConcat
      <3>2. Cardinality(PlacesOf(back, o)) = IsIn(o, S)
        BY <1>10
      <3> QED
        BY <1>4, <3>1, <3>2, Zenon
    <2>4. OwnersOf(o)' = Cardinality(SlotsOf(hSlots, o)) + Cardinality(HoldersOf(hHolds', o))
                         + Cardinality(PlacesOf(hScope, o)) + Cardinality(PlacesOf(hDropping', o))
      BY <1>4 DEF OwnersOf
    <2>5. IsIn(o, S) \in Nat /\ Cardinality(HoldersOf(hHolds', o)) \in Nat
      BY OwnersAreFinite DEF IsIn
    <2>6. Cardinality(PlacesOf(rest, o)) \in Nat
      BY <1>2, OwnersAreFinite
    <2>7. hRefs[o] = hRefs'[o] + Same(d, o) /\ hRefs'[o] \in Nat /\ Same(d, o) \in Nat
      BY <1>3, <1>5 DEF Same
    <2>8. /\ Cardinality(SlotsOf(hSlots, o)) \in Nat
          /\ Cardinality(PlacesOf(hScope, o)) \in Nat
          /\ hRefs[o] = Cardinality(SlotsOf(hSlots, o)) + Cardinality(HoldersOf(hHolds, o))
                        + Cardinality(PlacesOf(hScope, o)) + Cardinality(PlacesOf(hDropping, o))
      BY <1>0, CountsAreSums
    <2> QED
      BY <2>1, <2>2, <2>3, <2>4, <2>5, <2>6, <2>7, <2>8
  <1>13. HandlesShape'
    <2>1. \A p \in C : hHolds'[p] \subseteq hHolds[p]
      BY <1>6
    <2>2. \A p \in C : \A o \in hHolds'[p] : MayHold(p, o)
      BY <1>0, <2>1 DEF HandlesShape
    <2>3. \A p \in C : hPoints'[p] # {} => p \in Pointers
      BY <1>0, <1>7 DEF HandlesShape
    <2>4. \A p \in C : hRefs'[p] = 0 => hHolds'[p] = {} /\ hPoints'[p] = {}
      <3>1. ASSUME NEW p \in C, hRefs'[p] = 0
            PROVE  hHolds'[p] = {} /\ hPoints'[p] = {}
        <4>1. CASE p = d
          BY <1>8, <3>1, <4>1
        <4>2. CASE p # d
          <5>1. hRefs[p] = 0
            BY <1>5, <3>1, <4>2
          <5> QED
            BY <1>0, <1>7, <2>1, <5>1 DEF HandlesShape
        <4> QED
          BY <4>1, <4>2
      <3> QED
        BY <3>1
    <2>5. \A p \in C : hRefs'[p] > 0 => hRefs[p] > 0 /\ hHolds'[p] = hHolds[p]
      <3>1. ASSUME NEW p \in C, hRefs'[p] > 0
            PROVE  hRefs[p] > 0 /\ hHolds'[p] = hHolds[p]
        <4>1. CASE p = d
          BY <1>3, <1>9, <3>1, <4>1
        <4>2. CASE p # d
          BY <1>5, <1>6, <3>1, <4>2
        <4> QED
          BY <4>1, <4>2
      <3> QED
        BY <3>1
    <2>6. /\ \A p \in Blocks : hRefs'[p] > 0 => hHolds'[p] # {}
          /\ \A c \in Certs : hRefs'[c] > 0 => KeyOf[c] \in hHolds'[c]
      BY <1>0, <2>5, KindsDiffer DEF HandlesShape
    <2>7. \A s \in hArguments' : hSlots'[s] # "null"
      BY <1>0, <1>4 DEF HandlesShape
    <2> QED
      BY <2>2, <2>3, <2>4, <2>6, <2>7 DEF HandlesShape
  <1>14. HandlesRun'
    <2>1. \A H \in SUBSET C : Kept(H) => \A p \in H : hHolds[p] \subseteq hHolds'[p]
      <3>1. ASSUME NEW H \in SUBSET C, Kept(H), NEW p \in H
            PROVE  hHolds[p] \subseteq hHolds'[p]
        <4>1. CASE p = d
          <5>1. \E i \in 1 .. Len(hDropping) : hDropping[i] = d
            <6>1. Len(hDropping) \in Nat \ {0}
              BY <1>1, EmptySeq
            <6>2. 1 \in 1 .. Len(hDropping) /\ hDropping[1] = d
              BY <6>1 DEF d
            <6> QED
              BY <6>2
          <5>2. hRefs[d] >= 2
            BY <1>0, <3>1, <4>1, <5>1, KeptIsThere
          <5> QED
            BY <1>3, <1>5, <1>9, <4>1, <5>2
        <4>2. CASE p # d
          BY <1>6, <4>2
        <4> QED
          BY <4>1, <4>2
      <3> QED
        BY <3>1
    <2>2. \A p \in C : LoneObjects \intersect hHolds'[p] \subseteq hHolds[p]
      BY <1>6
    <2>3. \A s \in hArguments : hSlots'[s] = hSlots[s]
      BY <1>4
    <2> QED
      BY <1>0, <1>4, <1>7, <2>1, <2>2, <2>3, RunGoesOn
  <1> QED
    BY <1>11, <1>12, <1>13, <1>14 DEF HandlesIInv

(***************************************************************************)
(* The steps of a running function.                                        *)
(***************************************************************************)

(* H is what is kept, f what is known now and e what the next step leads to *)
Facing(H, f, e, g) ==
    /\ Kept(H)
    /\ \A p \in Native!Counted : hPoints[p] \subseteq H
    /\ f.scope = hScope
    /\ f.ready \subseteq H
    /\ \A p \in Native!Counted : f.apart \intersect hHolds[p] = {}
    /\ StepIsSafe(Head(hTodo), f, e)
    /\ Safely(Tail(hTodo), e, g)

(* What is known when the next step of a function is taken. *)
LEMMA RunningFacts ==
    ASSUME HandlesIInv, Native!Running
    PROVE  /\ hDropping = <<>>
           /\ Head(hTodo) \in FunctionSteps /\ Tail(hTodo) \in Seq(FunctionSteps)
           /\ Head(hTodo).op = "return" => Tail(hTodo) = <<>>
           /\ \E H \in SUBSET Native!Counted, f, e, g \in Frames : Facing(H, f, e, g)
  <1>1. hDropping = <<>> /\ hTodo # <<>>
    BY DEF Native!Running
  <1>2. PICK H \in SUBSET Native!Counted, f \in Frames, g \in Frames : RunIsSafe(H, f, g)
    BY <1>1 DEF HandlesIInv, HandlesRun
  <1>3. Safely(hTodo, f, g)
    BY <1>2 DEF RunIsSafe
  <1>4. /\ Head(hTodo) \in FunctionSteps
        /\ \E e \in Frames : StepIsSafe(Head(hTodo), f, e) /\ Safely(Tail(hTodo), e, g)
        /\ Head(hTodo).op = "return" => Tail(hTodo) = <<>>
    BY <1>1, <1>3, SafelyHead
  <1>5. Tail(hTodo) \in Seq(FunctionSteps)
    BY <1>1, HeadTailProperties DEF HandlesIInv, HandlesTypes
  <1>6. PICK e \in Frames : StepIsSafe(Head(hTodo), f, e) /\ Safely(Tail(hTodo), e, g)
    BY <1>4
  <1>7. /\ Kept(H)
        /\ \A p \in Native!Counted : hPoints[p] \subseteq H
        /\ f.scope = hScope
        /\ f.ready \subseteq H
        /\ \A p \in Native!Counted : f.apart \intersect hHolds[p] = {}
    BY <1>2 DEF RunIsSafe
  <1>8. Facing(H, f, e, g)
    BY <1>6, <1>7, Zenon DEF Facing
  <1> QED
    BY <1>1, <1>4, <1>5, <1>8, Zenon

(* The rest of the function is safe after the step. *)
LEMMA NextRun ==
    ASSUME NEW H \in SUBSET Native!Counted, NEW e \in Frames, NEW g \in Frames,
           hTodo' = Tail(hTodo), Safely(Tail(hTodo), e, g),
           Kept(H)',
           \A p \in Native!Counted : hPoints'[p] \subseteq H,
           e.scope = hScope',
           e.ready \subseteq H,
           \A p \in Native!Counted : e.apart \intersect hHolds'[p] = {}
    PROVE  HandlesRun'
  <1>1. Safely(hTodo', e, g)
    BY Zenon
  <1>2. RunIsSafe(H, e, g)'
    BY <1>1, Zenon DEF RunIsSafe
  <1> QED
    BY <1>2, Zenon DEF HandlesRun

(* One reference more for every object of a set. *)
LEMMA PlusFacts ==
    ASSUME HandlesTypes, NEW set
    PROVE  /\ Native!Plus(set) \in [Native!Counted -> Nat]
           /\ \A o \in Native!Counted :
                 /\ Native!Plus(set)[o] = hRefs[o] + IsIn(o, set)
                 /\ Native!Plus(set)[o] = 0 => hRefs[o] = 0 /\ o \notin set
                 /\ o \notin set => Native!Plus(set)[o] = hRefs[o]
  <1>1. hRefs \in [Native!Counted -> Nat]
    BY DEF HandlesTypes
  <1> QED
    BY <1>1 DEF Native!Plus, IsIn

(* What was kept is kept as long as no local gives it up but to an object  *)
(* that is kept as well.                                                   *)
LEMMA KeptMoves ==
    ASSUME NEW H, NEW H2, Kept(H), H \subseteq H2,
           hArguments' = hArguments, hSlots' = hSlots,
           \A p \in H : hHolds[p] \subseteq hHolds'[p],
           \A y \in H : \A i \in 1 .. Len(hScope) : hScope[i] = y =>
              \/ \E j \in 1 .. Len(hScope') : hScope'[j] = y
              \/ \E p \in H : y \in hHolds'[p],
           \A y \in H2 \ H : \/ \E j \in 1 .. Len(hScope') : hScope'[j] = y
                            \/ \E p \in H : y \in hHolds'[p]
    PROVE  Kept(H2)'
  <1>1. ASSUME NEW y \in H2
        PROVE  \/ \E j \in 1 .. Len(hScope') : hScope'[j] = y
               \/ \E s \in hArguments' : hSlots'[s] = y
               \/ \E p \in H2 : y \in hHolds'[p]
    <2>1. CASE y \notin H
      BY <2>1
    <2>2. CASE y \in H
      <3>1. \/ \E i \in 1 .. Len(hScope) : hScope[i] = y
            \/ \E s \in hArguments : hSlots[s] = y
            \/ \E p \in H : y \in hHolds[p]
        BY <2>2 DEF Kept
      <3>2. CASE \E i \in 1 .. Len(hScope) : hScope[i] = y
        BY <2>2, <3>2
      <3>3. CASE \E s \in hArguments : hSlots[s] = y
        BY <3>3
      <3>4. CASE \E p \in H : y \in hHolds[p]
        BY <3>4
      <3> QED
        BY <3>1, <3>2, <3>3, <3>4
    <2> QED
      BY <2>1, <2>2
  <1> QED
    BY <1>1 DEF Kept

(* Objects that are kept are there for the call of the step. *)
LEMMA StepTouches ==
    ASSUME HandlesIInv, NEW H \in SUBSET Native!Counted, NEW f, NEW e, NEW g, Facing(H, f, e, g),
           NEW set \in SUBSET H
    PROVE  Native!Touched(set) = {} /\ \A x \in H : hRefs[x] \in Nat /\ hRefs[x] >= 1
  <1>1. HandlesTypes /\ HandlesCounts
    BY DEF HandlesIInv
  <1>2. Kept(H) /\ \A p \in Native!Counted : hPoints[p] \subseteq H
    BY DEF Facing
  <1>3. Native!Touched(set) = {}
    BY <1>1, <1>2, TouchedIsThere
  <1>4. \A x \in H : hRefs[x] \in Nat /\ hRefs[x] >= 1
    BY <1>1, <1>2, KeptIsThere DEF HandlesTypes
  <1> QED
    BY <1>3, <1>4

(* A local is there as often as it is counted. *)
LEMMA PlacesAreThere ==
    ASSUME NEW S, NEW seq \in Seq(S), NEW y
    PROVE  /\ Cardinality(PlacesOf(seq, y)) \in Nat
           /\ Cardinality(PlacesOf(seq, y)) # 0 <=> \E i \in 1 .. Len(seq) : seq[i] = y
  <1>1. IsFiniteSet(PlacesOf(seq, y)) /\ Cardinality(PlacesOf(seq, y)) \in Nat
    BY OwnersAreFinite
  <1>2. PlacesOf(seq, y) # {} <=> \E i \in 1 .. Len(seq) : seq[i] = y
    BY DEF PlacesOf
  <1>3. Cardinality(PlacesOf(seq, y)) = 0 <=> PlacesOf(seq, y) = {}
    BY <1>1, FS_EmptySet
  <1> QED
    BY <1>1, <1>2, <1>3

(* A step after which the locals own what they owned before. *)
LEMMA QuietStep ==
    ASSUME HandlesIInv, Native!Running,
           NEW H \in SUBSET Native!Counted, NEW f \in Frames, NEW e \in Frames, NEW g \in Frames,
           Facing(H, f, e, g),
           hTodo' = Tail(hTodo), hScope' \in Seq(InScope), hFaults' = {},
           \A o \in Native!Counted :
              Cardinality(PlacesOf(hScope', o)) = Cardinality(PlacesOf(hScope, o)),
           e.scope = hScope', e.ready \subseteq H, e.apart \subseteq f.apart,
           hPoints' \in [Native!Counted -> SUBSET H],
           \A p \in Native!Counted : hPoints'[p] # {} => p \in Pointers /\ hRefs[p] # 0,
           UNCHANGED <<hRefs, hHolds, hSlots, hArguments, hDropping, hCalls>>
    PROVE  HandlesIInv'
  <1> DEFINE C == Native!Counted
  <1>0. HandlesTypes /\ HandlesCounts /\ HandlesShape
    BY DEF HandlesIInv
  <1>1. Tail(hTodo) \in Seq(FunctionSteps)
    BY RunningFacts
  <1>2. /\ Kept(H)
        /\ \A p \in C : f.apart \intersect hHolds[p] = {}
        /\ Safely(Tail(hTodo), e, g)
    BY DEF Facing
  <1>3. HandlesTypes'
    BY <1>0, <1>1 DEF HandlesTypes
  <1>4. HandlesCounts'
    <2> SUFFICES ASSUME NEW o \in C
                 PROVE  hRefs'[o] = OwnersOf(o)'
      BY DEF HandlesCounts
    <2>1. OwnersOf(o)' = Cardinality(SlotsOf(hSlots, o)) + Cardinality(HoldersOf(hHolds, o))
                         + Cardinality(PlacesOf(hScope', o)) + Cardinality(PlacesOf(hDropping, o))
      BY DEF OwnersOf
    <2>2. Cardinality(PlacesOf(hScope', o)) = Cardinality(PlacesOf(hScope, o))
      OBVIOUS
    <2>3. hRefs'[o] = Cardinality(SlotsOf(hSlots, o)) + Cardinality(HoldersOf(hHolds, o))
                      + Cardinality(PlacesOf(hScope, o)) + Cardinality(PlacesOf(hDropping, o))
      BY <1>0, CountsAreSums
    <2> QED
      BY <2>1, <2>2, <2>3, Zenon
  <1>5. HandlesShape'
    BY <1>0 DEF HandlesShape
  <1>6. Kept(H)'
    <2>1. \A y \in H : (\E i \in 1 .. Len(hScope) : hScope[i] = y) =>
             \E j \in 1 .. Len(hScope') : hScope'[j] = y
      <3> TAKE y \in H
      <3>1. Cardinality(PlacesOf(hScope', y)) = Cardinality(PlacesOf(hScope, y))
        OBVIOUS
      <3>2. Cardinality(PlacesOf(hScope, y)) # 0 <=> \E i \in 1 .. Len(hScope) : hScope[i] = y
        BY <1>0, PlacesAreThere DEF HandlesTypes
      <3>3. Cardinality(PlacesOf(hScope', y)) # 0 <=> \E j \in 1 .. Len(hScope') : hScope'[j] = y
        BY PlacesAreThere
      <3> QED
        BY <3>1, <3>2, <3>3, Zenon
    <2> QED
      BY <1>2, <2>1, KeptMoves
  <1>7. HandlesRun'
    <2>1. /\ \A p \in C : hPoints'[p] \subseteq H
          /\ \A p \in C : e.apart \intersect hHolds'[p] = {}
      BY <1>2
    <2> QED
      BY <1>2, <1>6, <2>1, NextRun
  <1> QED
    BY <1>3, <1>4, <1>5, <1>7 DEF HandlesIInv

(* A local owns a new object, or one more reference of a key. *)
LEMMA LocalGets ==
    ASSUME HandlesIInv, Native!Running,
           NEW H \in SUBSET Native!Counted, NEW f \in Frames, NEW e \in Frames, NEW g \in Frames,
           Facing(H, f, e, g), NEW x \in Native!Locals \union Keys,
           hRefs' = Native!Plus({x}), hTodo' = Tail(hTodo), hScope' \in Seq(InScope),
           hFaults' = {},
           \A o \in Native!Counted :
              Cardinality(PlacesOf(hScope', o)) = Cardinality(PlacesOf(hScope, o)) + Same(x, o),
           e.scope = hScope', e.ready \subseteq H \union {x}, e.apart \subseteq f.apart,
           UNCHANGED <<hHolds, hPoints, hSlots, hArguments, hDropping, hCalls>>
    PROVE  HandlesIInv'
  <1> DEFINE C == Native!Counted
  <1>0. HandlesTypes /\ HandlesCounts /\ HandlesShape
    BY DEF HandlesIInv
  <1>1. Tail(hTodo) \in Seq(FunctionSteps)
    BY RunningFacts
  <1>2. /\ Kept(H)
        /\ \A p \in C : hPoints[p] \subseteq H
        /\ \A p \in C : f.apart \intersect hHolds[p] = {}
        /\ Safely(Tail(hTodo), e, g)
    BY DEF Facing
  <1>3. hRefs' \in [C -> Nat] /\ \A o \in C : hRefs'[o] = hRefs[o] + Same(x, o)
    <2>1. hRefs' \in [C -> Nat] /\ \A o \in C : hRefs'[o] = hRefs[o] + IsIn(o, {x})
      BY <1>0, PlusFacts
    <2>2. \A o : IsIn(o, {x}) = Same(x, o)
      BY DEF IsIn, Same
    <2> QED
      BY <2>1, <2>2
  <1>4. x \in C /\ x \notin Blocks \union Certs
    BY KindsDiffer
  <1>5. Kept(H \union {x})'
    <2>1. ASSUME NEW y \in H \union {x},
                 (\E i \in 1 .. Len(hScope) : hScope[i] = y) \/ y = x
          PROVE  \E j \in 1 .. Len(hScope') : hScope'[j] = y
      <3>0. y \in C
        BY <1>4
      <3>1. Cardinality(PlacesOf(hScope', y)) = Cardinality(PlacesOf(hScope, y)) + Same(x, y)
        BY <3>0
      <3>2. /\ Cardinality(PlacesOf(hScope, y)) \in Nat
            /\ Cardinality(PlacesOf(hScope, y)) # 0 <=> \E i \in 1 .. Len(hScope) : hScope[i] = y
        BY <1>0, PlacesAreThere DEF HandlesTypes
      <3>3. Cardinality(PlacesOf(hScope', y)) # 0 <=> \E j \in 1 .. Len(hScope') : hScope'[j] = y
        BY PlacesAreThere
      <3>4. Same(x, y) \in Nat /\ (y = x => Same(x, y) = 1)
        BY DEF Same
      <3>5. Cardinality(PlacesOf(hScope', y)) # 0
        <4>1. Cardinality(PlacesOf(hScope, y)) # 0 \/ Same(x, y) = 1
          BY <2>1, <3>2, <3>4
        <4> QED
          BY <3>1, <3>2, <3>4, <4>1
      <3> QED
        BY <3>3, <3>5
    <2>2. /\ \A y \in H : \A i \in 1 .. Len(hScope) : hScope[i] = y =>
                \E j \in 1 .. Len(hScope') : hScope'[j] = y
          /\ \A y \in (H \union {x}) \ H : \E j \in 1 .. Len(hScope') : hScope'[j] = y
      BY <2>1
    <2> QED
      BY <1>2, <2>2, KeptMoves
  <1>6. HandlesTypes'
    BY <1>0, <1>1, <1>3 DEF HandlesTypes
  <1>7. HandlesCounts'
    <2> SUFFICES ASSUME NEW o \in C
                 PROVE  hRefs'[o] = OwnersOf(o)'
      BY DEF HandlesCounts
    <2>2. Cardinality(PlacesOf(hScope', o)) = Cardinality(PlacesOf(hScope, o)) + Same(x, o)
      OBVIOUS
    <2>3. hRefs'[o] = hRefs[o] + Same(x, o)
      BY <1>3
    <2>4. OwnersOf(o)' = Cardinality(SlotsOf(hSlots, o)) + Cardinality(HoldersOf(hHolds, o))
                         + Cardinality(PlacesOf(hScope', o)) + Cardinality(PlacesOf(hDropping, o))
      BY DEF OwnersOf
    <2>5. Same(x, o) \in Nat
      BY DEF Same
    <2> QED
      BY <1>0, <2>2, <2>3, <2>4, <2>5, CountsAreSums
  <1>8. HandlesShape'
    <2>1. /\ \A p \in C : hRefs'[p] = 0 => hRefs[p] = 0
          /\ \A p \in C : p # x => hRefs'[p] = hRefs[p]
      BY <1>0, PlusFacts
    <2>2. \A p \in Blocks \union Certs : p \in C /\ hRefs'[p] = hRefs[p]
      BY <1>4, <2>1, KindsDiffer
    <2> QED
      BY <1>0, <2>1, <2>2 DEF HandlesShape
  <1>9. HandlesRun'
    <2>1. H \union {x} \in SUBSET C
      BY <1>4
    <2>2. /\ \A p \in C : hPoints'[p] \subseteq H \union {x}
          /\ \A p \in C : e.apart \intersect hHolds'[p] = {}
      BY <1>2
    <2> QED
      BY <1>2, <1>5, <2>1, <2>2, NextRun
  <1> QED
    BY <1>6, <1>7, <1>8, <1>9 DEF HandlesIInv

(* Object x gets references of the objects in more, new ones or those of   *)
(* the locals                                                              *)
Gains(H, x, more) ==
    /\ hHolds' \in [Native!Counted -> SUBSET Native!Counted]
    /\ hHolds'[x] = hHolds[x] \union more
    /\ \A p \in Native!Counted \ {x} : hHolds'[p] = hHolds[p]
    /\ hRefs' \in [Native!Counted -> Nat]
    /\ \A o \in Native!Counted :
          /\ hRefs'[o] + Cardinality(PlacesOf(hScope, o))
             = hRefs[o] + IsIn(o, more) + Cardinality(PlacesOf(hScope', o))
          /\ hRefs'[o] = 0 => hRefs[o] = 0
          /\ hRefs'[o] # 0 => hRefs[o] # 0 \/ o \in LoneObjects
    /\ \A y \in H \ more : (\E i \in 1 .. Len(hScope) : hScope[i] = y) =>
          \E j \in 1 .. Len(hScope') : hScope'[j] = y

(* An object gets references of others: new ones, or those of locals. *)
LEMMA HolderGets ==
    ASSUME HandlesIInv, Native!Running,
           NEW H \in SUBSET Native!Counted, NEW f \in Frames, NEW e \in Frames, NEW g \in Frames,
           Facing(H, f, e, g), NEW x \in H, NEW more \in SUBSET Native!Counted,
           hHolds[x] \intersect more = {}, \A o \in more : MayHold(x, o),
           Gains(H, x, more),
           hTodo' = Tail(hTodo), hScope' \in Seq(InScope), hFaults' = {},
           e.scope = hScope', e.ready \subseteq H \union more, e.apart \subseteq f.apart \ more,
           UNCHANGED <<hPoints, hSlots, hArguments, hDropping, hCalls>>
    PROVE  HandlesIInv'
  <1> DEFINE C == Native!Counted
  <1>0. HandlesTypes /\ HandlesCounts /\ HandlesShape
    BY DEF HandlesIInv
  <1>1. Tail(hTodo) \in Seq(FunctionSteps)
    BY RunningFacts
  <1>2. /\ Kept(H)
        /\ \A p \in C : hPoints[p] \subseteq H
        /\ \A p \in C : f.apart \intersect hHolds[p] = {}
        /\ Safely(Tail(hTodo), e, g)
    BY DEF Facing
  <1>3. hRefs[x] >= 1 /\ hRefs[x] \in Nat
    BY <1>0, <1>2, KeptIsThere DEF HandlesTypes
  <1>4. /\ hHolds'[x] = hHolds[x] \union more
        /\ \A p \in C \ {x} : hHolds'[p] = hHolds[p]
        /\ hHolds' \in [C -> SUBSET C]
    BY DEF Gains
  <1>5. HandlesTypes'
    BY <1>0, <1>1, <1>4 DEF HandlesTypes, Gains
  <1>6. HandlesCounts'
    <2> SUFFICES ASSUME NEW o \in C
                 PROVE  hRefs'[o] = OwnersOf(o)'
      BY DEF HandlesCounts
    <2>1. Cardinality(HoldersOf(hHolds', o)) = Cardinality(HoldersOf(hHolds, o)) + IsIn(o, more)
      <3>1. hHolds \in [C -> SUBSET C] /\ x \in C
        BY <1>0 DEF HandlesTypes
      <3>2. hHolds[x] \intersect more = {} /\ hHolds'[x] = hHolds[x] \union more
        BY <1>4
      <3>3. \A p \in C \ {x} : hHolds'[p] = hHolds[p]
        BY <1>4
      <3> QED
        BY ONLY <3>1, <3>2, <3>3, HoldersGrow
    <2>2. OwnersOf(o)' = Cardinality(SlotsOf(hSlots, o)) + Cardinality(HoldersOf(hHolds', o))
                         + Cardinality(PlacesOf(hScope', o)) + Cardinality(PlacesOf(hDropping, o))
      BY DEF OwnersOf
    <2>3. Cardinality(PlacesOf(hScope', o)) \in Nat /\ IsIn(o, more) \in Nat /\ hRefs'[o] \in Nat
      BY OwnersAreFinite DEF IsIn, Gains
    <2>4. hRefs'[o] + Cardinality(PlacesOf(hScope, o))
          = hRefs[o] + IsIn(o, more) + Cardinality(PlacesOf(hScope', o))
      BY DEF Gains
    <2>5. /\ Cardinality(SlotsOf(hSlots, o)) \in Nat
          /\ Cardinality(HoldersOf(hHolds, o)) \in Nat
          /\ Cardinality(PlacesOf(hScope, o)) \in Nat
          /\ Cardinality(PlacesOf(hDropping, o)) \in Nat
          /\ hRefs[o] = Cardinality(SlotsOf(hSlots, o)) + Cardinality(HoldersOf(hHolds, o))
                        + Cardinality(PlacesOf(hScope, o)) + Cardinality(PlacesOf(hDropping, o))
      BY <1>0, CountsAreSums
    <2> QED
      BY ONLY <2>1, <2>2, <2>3, <2>4, <2>5
  <1>7. HandlesShape'
    <2>1. \A p \in C : \A o \in hHolds'[p] : MayHold(p, o)
      BY <1>0, <1>4 DEF HandlesShape
    <2>2. \A p \in C : hRefs'[p] = 0 => p # x
      BY <1>3 DEF Gains
    <2>3. \A p \in C : hRefs'[p] = 0 => hHolds'[p] = {} /\ hPoints'[p] = {}
      BY <1>0, <1>4, <2>2 DEF HandlesShape, Gains
    <2>4. \A p \in C : hHolds[p] \subseteq hHolds'[p]
      BY <1>4
    <2>5. \A p \in Blocks \union Certs : p \in C /\ p \notin LoneObjects
      BY KindsDiffer DEF LoneObjects, Native!Locals
    <2>6. \A p \in Blocks \union Certs : hRefs'[p] > 0 => hRefs[p] > 0
      BY <1>0, <2>5 DEF HandlesTypes, Gains
    <2> QED
      BY <1>0, <2>1, <2>3, <2>4, <2>5, <2>6 DEF HandlesShape
  <1>8. Kept(H \union more)'
    <2>1. \A p \in H : hHolds[p] \subseteq hHolds'[p]
      BY <1>4
    <2>2. \A y \in more : \E p \in H : y \in hHolds'[p]
      BY <1>4
    <2>3. \A y \in H : \A i \in 1 .. Len(hScope) : hScope[i] = y =>
             \/ \E j \in 1 .. Len(hScope') : hScope'[j] = y
             \/ \E p \in H : y \in hHolds'[p]
      <3> TAKE y \in H
      <3>1. CASE y \in more
        BY <2>2, <3>1, Zenon
      <3>2. CASE y \notin more
        BY <3>2, Zenon DEF Gains
      <3> QED
        BY <3>1, <3>2
    <2>4. \A y \in (H \union more) \ H : \/ \E j \in 1 .. Len(hScope') : hScope'[j] = y
                                         \/ \E p \in H : y \in hHolds'[p]
      BY <2>2
    <2> QED
      BY <1>2, <2>1, <2>3, <2>4, KeptMoves
  <1>9. HandlesRun'
    <2>1. H \union more \in SUBSET C
      OBVIOUS
    <2>2. /\ \A p \in C : hPoints'[p] \subseteq H \union more
          /\ \A p \in C : e.apart \intersect hHolds'[p] = {}
      BY <1>2, <1>4
    <2> QED
      BY <1>2, <1>8, <2>1, <2>2, NextRun
  <1> QED
    BY <1>5, <1>6, <1>7, <1>9 DEF HandlesIInv

(* The frames around the next step of a function. *)
LEMMA StepFrames ==
    ASSUME HandlesIInv, Native!Running, NEW st, st = Native!Step
    PROVE  \E H \in SUBSET Native!Counted, f, e, g \in Frames :
              /\ Facing(H, f, e, g) /\ f.scope = hScope /\ f.ready \subseteq H
              /\ \A p \in Native!Counted : f.apart \intersect hHolds[p] = {}
              /\ StepIsSafe(st, f, e)
  <1>1. PICK H \in SUBSET Native!Counted, f \in Frames, e \in Frames, g \in Frames :
           Facing(H, f, e, g)
    BY RunningFacts
  <1>2. /\ f.scope = hScope /\ f.ready \subseteq H
        /\ \A p \in Native!Counted : f.apart \intersect hHolds[p] = {}
        /\ StepIsSafe(Head(hTodo), f, e)
    BY <1>1 DEF Facing
  <1>3. StepIsSafe(st, f, e)
    BY <1>2, Zenon DEF Native!Step
  <1> QED
    BY <1>1, <1>2, <1>3, Zenon

(* The steps that a local gets an object from. *)
LEMMA StepNewKeeps ==
    ASSUME HandlesIInv, Native!StepNew \/ Native!StepGenerate \/ Native!StepRef
    PROVE  HandlesIInv'
  <1>1. Native!Running
    BY DEF Native!StepNew, Native!StepGenerate, Native!StepRef
  <1>2. PICK st, x : st = Native!Step /\ x = st.obj
    OBVIOUS
  <1>3. /\ st.op \in {"new", "generate", "ref"}
        /\ hTodo' = Tail(hTodo) /\ UNCHANGED <<hSlots, hArguments, hCalls, hHolds, hPoints, hDropping>>
        /\ hRefs' = Native!Plus({x}) /\ hScope' = Append(hScope, x)
        /\ hFaults' = hFaults \/ (st.op = "ref" /\ hFaults' = Native!Touched({x}))
    <2>1. CASE Native!StepNew
      BY <1>2, <2>1 DEF Native!StepNew, Native!Done
    <2>2. CASE Native!StepGenerate
      BY <1>2, <2>2 DEF Native!StepGenerate, Native!Done
    <2>3. CASE Native!StepRef
      BY <1>2, <2>3 DEF Native!StepRef, Native!Done
    <2> QED
      BY <2>1, <2>2, <2>3
  <1>4. PICK H \in SUBSET Native!Counted, f \in Frames, e \in Frames, g \in Frames :
              /\ Facing(H, f, e, g) /\ f.scope = hScope /\ f.ready \subseteq H
              /\ StepIsSafe(st, f, e)
    BY <1>1, <1>2, StepFrames
  <1>5. /\ x \in Native!Locals \union Keys
        /\ e.scope = Append(f.scope, x) /\ e.ready \subseteq f.ready \union {x}
        /\ e.apart = f.apart
        /\ st.op = "ref" => x \in f.ready
    BY <1>2, <1>3, <1>4 DEF StepIsSafe
  <1>6. x \in InScope /\ hScope \in Seq(InScope) /\ hFaults = {}
    BY <1>5 DEF InScope, HandlesIInv, HandlesTypes
  <1>7. hScope' \in Seq(InScope) /\ e.scope = hScope'
    <2>1. Append(hScope, x) \in Seq(InScope)
      BY <1>6, AppendProperties
    <2>2. e.scope = Append(hScope, x)
      BY <1>4, <1>5, Zenon
    <2> QED
      BY <1>3, <2>1, <2>2, Zenon
  <1>8. \A o \in Native!Counted :
           Cardinality(PlacesOf(hScope', o)) = Cardinality(PlacesOf(hScope, o)) + Same(x, o)
    <2> TAKE o \in Native!Counted
    <2>1. Cardinality(PlacesOf(Append(hScope, x), o)) = Cardinality(PlacesOf(hScope, o)) + Same(x, o)
      BY <1>6, PlacesAppend
    <2> QED
      BY <1>3, <2>1, Zenon
  <1>9. hFaults' = {}
    <2>1. CASE hFaults' = hFaults
      BY <1>6, <2>1
    <2>2. CASE st.op = "ref" /\ hFaults' = Native!Touched({x})
      <3>1. {x} \in SUBSET H
        BY <1>4, <1>5, <2>2
      <3> QED
        BY <1>4, <2>2, <3>1, StepTouches
    <2> QED
      BY <1>3, <2>1, <2>2
  <1>10. e.ready \subseteq H \union {x} /\ e.apart \subseteq f.apart
    BY <1>4, <1>5
  <1> QED
    BY <1>1, <1>3, <1>4, <1>5, <1>7, <1>8, <1>9, <1>10, LocalGets

(* A local that was declared before gets a new object. *)
LEMMA StepAssignKeeps ==
    ASSUME HandlesIInv, Native!StepAssign
    PROVE  HandlesIInv'
  <1>1. Native!Running
    BY DEF Native!StepAssign
  <1>2. PICK st, x : st = Native!Step /\ x = st.obj
    OBVIOUS
  <1> DEFINE n == Len(hScope)
  <1>3. /\ st.op = "assign"
        /\ hTodo' = Tail(hTodo) /\ UNCHANGED <<hSlots, hArguments, hCalls, hHolds, hPoints, hDropping, hFaults>>
        /\ hRefs' = Native!Plus({x}) /\ hScope' = [hScope EXCEPT ![n] = x]
    BY <1>2 DEF Native!StepAssign, Native!Done
  <1>4. PICK H \in SUBSET Native!Counted, f \in Frames, e \in Frames, g \in Frames :
              /\ Facing(H, f, e, g) /\ f.scope = hScope /\ f.ready \subseteq H
              /\ StepIsSafe(st, f, e)
    BY <1>1, <1>2, StepFrames
  <1>5. /\ x \in Native!Locals
        /\ f.scope # <<>> /\ Native!Last(f.scope) = "null"
        /\ e.scope = [f.scope EXCEPT ![Len(f.scope)] = x] /\ e.ready = f.ready \union {x}
        /\ e.apart = f.apart
    BY <1>2, <1>3, <1>4 DEF StepIsSafe
  <1>6. x \in InScope /\ hScope \in Seq(InScope) /\ hFaults' = {}
    BY <1>3, <1>5 DEF InScope, HandlesIInv, HandlesTypes
  <1>7. hScope # <<>> /\ Native!Last(hScope) = "null" /\ e.scope = [hScope EXCEPT ![n] = x]
    BY <1>4, <1>5, Zenon
  <1>8. /\ hScope' \in Seq(InScope) /\ Len(hScope') = n /\ hScope'[n] = x
        /\ \A i \in 1 .. n : i # n => hScope'[i] = hScope[i]
    <2>1. n \in Nat \ {0}
      BY <1>6, <1>7, EmptySeq
    <2>2. hScope \in [1 .. n -> InScope]
      BY <1>6, LenProperties
    <2> HIDE DEF n
    <2>3. n \in 1 .. n
      BY <2>1
    <2>4. hScope' \in [1 .. n -> InScope]
      BY <1>3, <1>6, <2>2
    <2>5. hScope' \in Seq(InScope) /\ Len(hScope') = n
      BY <2>1, <2>4
    <2> QED
      BY <1>3, <2>2, <2>3, <2>5
  <1>9. e.scope = hScope'
    BY <1>3, <1>7, Zenon
  <1>10. \A o \in Native!Counted :
            Cardinality(PlacesOf(hScope', o)) = Cardinality(PlacesOf(hScope, o)) + Same(x, o)
    <2> TAKE o \in Native!Counted
    <2>1. Native!Last(hScope) # o
      BY <1>7, ObjectFacts
    <2> QED
      BY <1>6, <1>7, <1>8, <2>1, PlacesAssign
  <1>11. e.ready \subseteq H \union {x} /\ e.apart \subseteq f.apart
    BY <1>4, <1>5
  <1>12. /\ hRefs' = Native!Plus({x}) /\ hTodo' = Tail(hTodo) /\ hScope' \in Seq(InScope)
         /\ UNCHANGED <<hHolds, hPoints, hSlots, hArguments, hDropping, hCalls>>
         /\ x \in Native!Locals \union Keys /\ hFaults' = {} /\ Facing(H, f, e, g)
    BY <1>3, <1>4, <1>5, <1>6, <1>8
  <1> QED
    BY <1>1, <1>9, <1>10, <1>11, <1>12, LocalGets

(* An empty local starts. *)
LEMMA StepDeclareKeeps ==
    ASSUME HandlesIInv, Native!StepDeclare
    PROVE  HandlesIInv'
  <1>1. Native!Running
    BY DEF Native!StepDeclare
  <1>2. PICK st : st = Native!Step
    OBVIOUS
  <1>3. /\ st.op = "declare" /\ hTodo' = Tail(hTodo) /\ hScope' = Append(hScope, "null")
        /\ UNCHANGED <<hRefs, hHolds, hPoints, hSlots, hArguments, hDropping, hFaults, hCalls>>
    BY <1>2 DEF Native!StepDeclare, Native!Done, Native!heap, Native!Null
  <1>4. PICK H \in SUBSET Native!Counted, f \in Frames, e \in Frames, g \in Frames :
              /\ Facing(H, f, e, g) /\ f.scope = hScope /\ f.ready \subseteq H
              /\ StepIsSafe(st, f, e)
    BY <1>1, <1>2, StepFrames
  <1>5. e.scope = Append(f.scope, "null") /\ e.ready = f.ready /\ e.apart = f.apart
    BY <1>3, <1>4 DEF StepIsSafe
  <1>6. "null" \in InScope /\ hScope \in Seq(InScope) /\ hFaults = {}
    BY DEF InScope, HandlesIInv, HandlesTypes
  <1>7. hScope' \in Seq(InScope) /\ e.scope = hScope'
    <2>1. Append(hScope, "null") \in Seq(InScope)
      BY <1>6, AppendProperties
    <2>2. e.scope = Append(hScope, "null")
      BY <1>4, <1>5, Zenon
    <2> QED
      BY <1>3, <2>1, <2>2, Zenon
  <1>8. \A o \in Native!Counted :
           Cardinality(PlacesOf(hScope', o)) = Cardinality(PlacesOf(hScope, o))
    <2> TAKE o \in Native!Counted
    <2>1. Cardinality(PlacesOf(Append(hScope, "null"), o))
          = Cardinality(PlacesOf(hScope, o)) + Same("null", o)
      BY <1>6, PlacesAppend
    <2>2. Same("null", o) = 0 /\ Cardinality(PlacesOf(hScope, o)) \in Nat
      BY <1>6, ObjectFacts, PlacesAreThere DEF Same
    <2>3. Cardinality(PlacesOf(Append(hScope, "null"), o)) = Cardinality(PlacesOf(hScope, o))
      BY <2>1, <2>2
    <2> QED
      BY <1>3, <2>3, Zenon
  <1>9. /\ hPoints' \in [Native!Counted -> SUBSET H]
        /\ \A p \in Native!Counted : hPoints'[p] # {} => p \in Pointers /\ hRefs[p] # 0
    BY <1>3, <1>4 DEF Facing, HandlesIInv, HandlesTypes, HandlesShape
  <1>10. /\ hTodo' = Tail(hTodo) /\ hFaults' = {} /\ Facing(H, f, e, g)
         /\ e.ready \subseteq H /\ e.apart \subseteq f.apart
         /\ UNCHANGED <<hRefs, hHolds, hSlots, hArguments, hDropping, hCalls>>
    BY <1>3, <1>4, <1>5, <1>6
  <1> QED
    BY <1>1, <1>7, <1>8, <1>9, <1>10, QuietStep

(* An empty local ends: there is nothing to give back. *)
LEMMA StepLeaveKeeps ==
    ASSUME HandlesIInv, Native!StepLeave
    PROVE  HandlesIInv'
  <1>1. Native!Running
    BY DEF Native!StepLeave
  <1>2. PICK st : st = Native!Step
    OBVIOUS
  <1>3. /\ st.op = "leave" /\ hTodo' = Tail(hTodo) /\ hScope' = Native!Front(hScope)
        /\ hDropping' = Native!Owned(Native!Last(hScope))
        /\ UNCHANGED <<hRefs, hHolds, hPoints, hSlots, hArguments, hFaults, hCalls>>
    BY <1>2 DEF Native!StepLeave, Native!Done, Native!heap
  <1>4. PICK H \in SUBSET Native!Counted, f \in Frames, e \in Frames, g \in Frames :
              /\ Facing(H, f, e, g) /\ f.scope = hScope /\ f.ready \subseteq H
              /\ StepIsSafe(st, f, e)
    BY <1>1, <1>2, StepFrames
  <1>5. /\ f.scope # <<>> /\ Native!Last(f.scope) = "null"
        /\ e.scope = Native!Front(f.scope) /\ e.ready = f.ready /\ e.apart = f.apart
    BY <1>3, <1>4 DEF StepIsSafe
  <1>6. hScope \in Seq(InScope) /\ hFaults = {} /\ hDropping = <<>>
    BY <1>1 DEF HandlesIInv, HandlesTypes, Native!Running
  <1> DEFINE front == Native!Front(hScope)
  <1>7. hScope # <<>> /\ Native!Last(hScope) = "null" /\ e.scope = front
    BY <1>4, <1>5, Zenon
  <1>8. front \in Seq(InScope) /\ hScope = Append(front, "null")
    <2>1. front \in Seq(InScope) /\ hScope = Append(front, Native!Last(hScope))
      BY <1>6, <1>7, FrontAndLast
    <2> QED
      BY <1>7, <2>1, Zenon
  <1>9. hScope' = front
    BY <1>3
  <1>10. hDropping' = hDropping
    BY <1>3, <1>6, <1>7 DEF Native!Owned, Native!Null
  <1> HIDE DEF front
  <1>11. \A o \in Native!Counted :
           Cardinality(PlacesOf(hScope', o)) = Cardinality(PlacesOf(hScope, o))
    <2> TAKE o \in Native!Counted
    <2>1. Cardinality(PlacesOf(Append(front, "null"), o))
          = Cardinality(PlacesOf(front, o)) + Same("null", o)
      <3>1. "null" \in InScope
        BY DEF InScope
      <3> QED
        BY <1>8, <3>1, PlacesAppend
    <2>2. Same("null", o) = 0 /\ Cardinality(PlacesOf(front, o)) \in Nat
      BY <1>8, ObjectFacts, PlacesAreThere DEF Same
    <2>3. Cardinality(PlacesOf(Append(front, "null"), o)) = Cardinality(PlacesOf(front, o))
      BY <2>1, <2>2
    <2> QED
      BY <1>8, <1>9, <2>3, Zenon
  <1>12. /\ hPoints' \in [Native!Counted -> SUBSET H]
         /\ \A p \in Native!Counted : hPoints'[p] # {} => p \in Pointers /\ hRefs[p] # 0
    BY <1>3, <1>4 DEF Facing, HandlesIInv, HandlesTypes, HandlesShape
  <1>13. /\ hTodo' = Tail(hTodo) /\ hFaults' = {} /\ Facing(H, f, e, g)
         /\ e.ready \subseteq H /\ e.apart \subseteq f.apart
         /\ UNCHANGED <<hRefs, hHolds, hSlots, hArguments, hDropping, hCalls>>
    BY <1>3, <1>4, <1>5, <1>6, <1>10
  <1>14. hScope' \in Seq(InScope) /\ e.scope = hScope'
    BY <1>7, <1>8, <1>9
  <1> QED
    BY <1>1, <1>11, <1>12, <1>13, <1>14, QuietStep

(* OpenSSL looks at objects, or one gets pointers to others. *)
LEMMA StepUseKeeps ==
    ASSUME HandlesIInv, Native!StepUse \/ Native!StepPoint
    PROVE  HandlesIInv'
  <1>1. Native!Running
    BY DEF Native!StepUse, Native!StepPoint
  <1>2. PICK st, x, of : st = Native!Step /\ x = st.obj /\ of = st.of
    OBVIOUS
  <1>3. /\ hTodo' = Tail(hTodo)
        /\ \/ st.op = "use" /\ hPoints' = hPoints /\ hFaults' = Native!Touched({x})
           \/ /\ st.op = "point" /\ hPoints' = [hPoints EXCEPT ![x] = hPoints[x] \union of]
              /\ hFaults' = Native!Touched({x} \union of)
        /\ UNCHANGED <<hRefs, hHolds, hSlots, hScope, hArguments, hDropping, hCalls>>
    <2>1. CASE Native!StepUse
      BY <1>2, <2>1 DEF Native!StepUse, Native!Done, Native!heap
    <2>2. CASE Native!StepPoint
      BY <1>2, <2>2 DEF Native!StepPoint, Native!Done
    <2> QED
      BY <2>1, <2>2
  <1>4. PICK H \in SUBSET Native!Counted, f \in Frames, e \in Frames, g \in Frames :
              /\ Facing(H, f, e, g) /\ f.scope = hScope /\ f.ready \subseteq H
              /\ StepIsSafe(st, f, e)
    BY <1>1, <1>2, StepFrames
  <1>5. /\ e = f /\ x \in f.ready
        /\ st.op = "point" => x \in Pointers /\ of \subseteq f.ready
    BY <1>2, <1>3, <1>4 DEF StepIsSafe
  <1>6. hScope \in Seq(InScope) /\ hPoints \in [Native!Counted -> SUBSET Native!Counted]
    BY DEF HandlesIInv, HandlesTypes
  <1>7. hFaults' = {}
    <2>1. CASE hFaults' = Native!Touched({x})
      <3>1. {x} \in SUBSET H
        BY <1>4, <1>5
      <3> QED
        BY <1>4, <2>1, <3>1, StepTouches
    <2>2. CASE st.op = "point" /\ hFaults' = Native!Touched({x} \union of)
      <3>1. {x} \union of \in SUBSET H
        BY <1>4, <1>5, <2>2
      <3> QED
        BY <1>4, <2>2, <3>1, StepTouches
    <2> QED
      BY <1>3, <2>1, <2>2
  <1>8. /\ hPoints' \in [Native!Counted -> SUBSET H]
        /\ \A p \in Native!Counted : hPoints'[p] # {} => p \in Pointers /\ hRefs[p] # 0
    <2>1. /\ hPoints \in [Native!Counted -> SUBSET H]
          /\ \A p \in Native!Counted : hPoints[p] # {} => p \in Pointers /\ hRefs[p] # 0
      BY <1>4, <1>6 DEF Facing, HandlesIInv, HandlesShape
    <2>2. hRefs[x] # 0 /\ x \in Native!Counted
      <3>1. {} \in SUBSET H /\ x \in H
        BY <1>4, <1>5
      <3>2. hRefs[x] \in Nat /\ hRefs[x] >= 1
        BY <1>4, <3>1, StepTouches
      <3> QED
        BY <3>1, <3>2
    <2>3. CASE st.op = "use"
      BY <1>3, <2>1, <2>3
    <2>4. CASE st.op = "point" /\ hPoints' = [hPoints EXCEPT ![x] = hPoints[x] \union of]
      BY <1>4, <1>5, <2>1, <2>2, <2>4
    <2> QED
      BY <1>3, <2>3, <2>4
  <1>9. /\ hScope' \in Seq(InScope) /\ e.scope = hScope'
        /\ \A o \in Native!Counted :
              Cardinality(PlacesOf(hScope', o)) = Cardinality(PlacesOf(hScope, o))
    BY <1>3, <1>4, <1>5, <1>6, Zenon
  <1>10. /\ hTodo' = Tail(hTodo) /\ Facing(H, f, e, g)
         /\ e.ready \subseteq H /\ e.apart \subseteq f.apart
         /\ UNCHANGED <<hRefs, hHolds, hSlots, hArguments, hDropping, hCalls>>
    BY <1>3, <1>4, <1>5
  <1> QED
    BY <1>1, <1>7, <1>8, <1>9, <1>10, QuietStep

(* Objects made inside of another one, and references that it takes. *)
LEMMA StepTakeKeeps ==
    ASSUME HandlesIInv, Native!StepParts \/ Native!StepTake
    PROVE  HandlesIInv'
  <1> DEFINE C == Native!Counted
  <1>1. Native!Running
    BY DEF Native!StepParts, Native!StepTake
  <1>2. PICK st, x, of : st = Native!Step /\ x = st.obj /\ of = st.of
    OBVIOUS
  <1>3. /\ hTodo' = Tail(hTodo)
        /\ hHolds' = [hHolds EXCEPT ![x] = hHolds[x] \union of]
        /\ \/ st.op = "parts" /\ hRefs' = Native!Plus(of) /\ hFaults' = hFaults
           \/ /\ st.op = "take" /\ hRefs' = Native!Plus(of \ hHolds[x])
              /\ hFaults' = Native!Touched({x} \union of)
        /\ UNCHANGED <<hPoints, hSlots, hScope, hArguments, hDropping, hCalls>>
    <2>1. CASE Native!StepParts
      BY <1>2, <2>1 DEF Native!StepParts, Native!Done
    <2>2. CASE Native!StepTake
      BY <1>2, <2>2 DEF Native!StepTake, Native!Done
    <2> QED
      BY <2>1, <2>2
  <1>4. PICK H \in SUBSET C, f \in Frames, e \in Frames, g \in Frames :
              /\ Facing(H, f, e, g) /\ f.scope = hScope /\ f.ready \subseteq H
              /\ \A p \in C : f.apart \intersect hHolds[p] = {}
              /\ StepIsSafe(st, f, e)
    BY <1>1, <1>2, StepFrames
  <1>5. /\ x \in f.ready /\ \A o \in of : MayHold(x, o)
        /\ e.scope = f.scope /\ e.ready \subseteq f.ready \union of /\ e.apart = f.apart \ of
        /\ st.op = "parts" => of \subseteq f.apart
        /\ st.op = "take" => of \subseteq f.ready /\ e.ready = f.ready
    BY <1>2, <1>3, <1>4 DEF StepIsSafe
  <1>6. /\ HandlesTypes /\ hScope \in Seq(InScope) /\ hFaults = {}
        /\ hHolds \in [C -> SUBSET C] /\ hRefs \in [C -> Nat]
    BY DEF HandlesIInv, HandlesTypes
  <1>7. /\ x \in H /\ x \in C /\ f.apart \subseteq LoneObjects /\ LoneObjects \subseteq C
        /\ f.apart \intersect hHolds[x] = {}
    BY <1>4, <1>5, KindsDiffer DEF Frames, LoneObjects, Native!Locals
  <1>8. PICK more : more = of \ hHolds[x]
    OBVIOUS
  <1>9. hRefs' = Native!Plus(more)
    <2>1. CASE st.op = "parts"
      <3>1. of = more
        BY <1>5, <1>7, <1>8, <2>1
      <3> QED
        BY <1>3, <2>1, <3>1, Zenon
    <2>2. CASE st.op = "take"
      BY <1>3, <1>8, <2>2, Zenon
    <2> QED
      BY <1>3, <2>1, <2>2
  <1>10. /\ hHolds[x] \intersect more = {} /\ \A o \in more : MayHold(x, o)
         /\ hHolds[x] \union of = hHolds[x] \union more
         /\ \A o \in more : o \in H \/ o \in LoneObjects
         /\ more \in SUBSET C
    BY <1>3, <1>4, <1>5, <1>7, <1>8
  <1>11. /\ hHolds' \in [C -> SUBSET C] /\ hHolds'[x] = hHolds[x] \union more
         /\ \A p \in C \ {x} : hHolds'[p] = hHolds[p]
    <2>1. hHolds' = [hHolds EXCEPT ![x] = hHolds[x] \union more]
      BY <1>3, <1>10, Zenon
    <2> QED
      BY <1>6, <1>7, <1>10, <2>1
  <1>12. /\ hRefs' \in [C -> Nat]
         /\ \A o \in C :
               /\ hRefs'[o] + Cardinality(PlacesOf(hScope, o))
                  = hRefs[o] + IsIn(o, more) + Cardinality(PlacesOf(hScope', o))
               /\ hRefs'[o] = 0 => hRefs[o] = 0
               /\ hRefs'[o] # 0 => hRefs[o] # 0 \/ o \in LoneObjects
    <2>1. /\ hRefs' \in [C -> Nat]
          /\ \A o \in C : /\ hRefs'[o] = hRefs[o] + IsIn(o, more)
                          /\ hRefs'[o] = 0 => hRefs[o] = 0
                          /\ o \notin more => hRefs'[o] = hRefs[o]
      BY <1>6, <1>9, PlusFacts
    <2>2. \A y \in H : hRefs[y] # 0
      <3>1. {} \in SUBSET H
        OBVIOUS
      <3>2. \A y \in H : hRefs[y] \in Nat /\ hRefs[y] >= 1
        BY <1>4, <3>1, StepTouches
      <3> QED
        BY <3>2
    <2>3. ASSUME NEW o \in C
          PROVE  /\ hRefs'[o] + Cardinality(PlacesOf(hScope, o))
                    = hRefs[o] + IsIn(o, more) + Cardinality(PlacesOf(hScope', o))
                 /\ hRefs'[o] # 0 => hRefs[o] # 0 \/ o \in LoneObjects
      <3>1. Cardinality(PlacesOf(hScope', o)) = Cardinality(PlacesOf(hScope, o))
        BY <1>3, Zenon
      <3>2. hRefs'[o] = hRefs[o] + IsIn(o, more)
        BY <2>1
      <3>3. hRefs'[o] + Cardinality(PlacesOf(hScope, o))
            = hRefs[o] + IsIn(o, more) + Cardinality(PlacesOf(hScope', o))
        BY <3>1, <3>2, Zenon
      <3>4. hRefs'[o] # 0 => hRefs[o] # 0 \/ o \in LoneObjects
        BY <1>10, <2>1, <2>2
      <3> QED
        BY <3>3, <3>4
    <2> QED
      BY <2>1, <2>3
  <1>13. hFaults' = {}
    <2>1. CASE hFaults' = hFaults
      BY <1>6, <2>1
    <2>2. CASE st.op = "take" /\ hFaults' = Native!Touched({x} \union of)
      <3>1. {x} \union of \in SUBSET H
        BY <1>4, <1>5, <2>2
      <3> QED
        BY <1>4, <2>2, <3>1, StepTouches
    <2> QED
      BY <1>3, <2>1, <2>2
  <1>14. /\ e.scope = hScope' /\ hScope' \in Seq(InScope)
         /\ \A y \in H \ more : (\E i \in 1 .. Len(hScope) : hScope[i] = y) =>
               \E j \in 1 .. Len(hScope') : hScope'[j] = y
    BY <1>3, <1>4, <1>5, <1>6, Zenon
  <1>15. /\ e.ready \subseteq H \union more /\ e.apart \subseteq f.apart \ more
         /\ hTodo' = Tail(hTodo) /\ Facing(H, f, e, g)
         /\ UNCHANGED <<hPoints, hSlots, hArguments, hDropping, hCalls>>
    BY <1>3, <1>4, <1>5, <1>7, <1>8
  <1>16. Gains(H, x, more)
    BY <1>11, <1>12, <1>14, Zenon DEF Gains
  <1> QED
    BY <1>1, <1>7, <1>10, <1>13, <1>14, <1>15, <1>16, HolderGets

(* What locals own goes to an object with the call of release(). *)
LEMMA StepGiveKeeps ==
    ASSUME HandlesIInv, Native!StepGive
    PROVE  HandlesIInv'
  <1> DEFINE C == Native!Counted
  <1>1. Native!Running
    BY DEF Native!StepGive
  <1>2. PICK st, x, of : st = Native!Step /\ x = st.obj /\ of = st.of
    OBVIOUS
  <1>3. /\ st.op = "give" /\ hTodo' = Tail(hTodo)
        /\ hHolds' = [hHolds EXCEPT ![x] = hHolds[x] \union of]
        /\ hScope' = Native!Released(hScope, of)
        /\ hFaults' = Native!Touched({x} \union of)
        /\ UNCHANGED <<hRefs, hPoints, hSlots, hArguments, hDropping, hCalls>>
    BY <1>2 DEF Native!StepGive, Native!Done
  <1>4. PICK H \in SUBSET C, f \in Frames, e \in Frames, g \in Frames :
              /\ Facing(H, f, e, g) /\ f.scope = hScope /\ f.ready \subseteq H
              /\ \A p \in C : f.apart \intersect hHolds[p] = {}
              /\ StepIsSafe(st, f, e)
    BY <1>1, <1>2, StepFrames
  <1>5. /\ x \in f.ready /\ of \subseteq f.ready /\ of \subseteq f.apart
        /\ \A o \in of : MayHold(x, o)
        /\ \A o \in of : Cardinality(PlacesOf(f.scope, o)) = 1
        /\ e.scope = Native!Released(f.scope, of) /\ e.ready = f.ready /\ e.apart = f.apart \ of
    BY <1>2, <1>3, <1>4 DEF StepIsSafe
  <1>6. /\ hScope \in Seq(InScope) /\ hRefs \in [C -> Nat] /\ "null" \in InScope
        /\ hHolds \in [C -> SUBSET C]
    BY DEF HandlesIInv, HandlesTypes, InScope
  <1>7. /\ x \in H /\ x \in C /\ of \in SUBSET C /\ hHolds[x] \intersect of = {}
        /\ {x} \union of \in SUBSET H
    BY <1>4, <1>5
  <1>8. hFaults' = {}
    BY <1>3, <1>4, <1>7, StepTouches
  <1>9. hScope' \in Seq(InScope) /\ e.scope = hScope'
    <2>1. Native!Released(hScope, of) \in Seq(InScope)
      <3>1. "r" # "null"
        OBVIOUS
      <3> QED
        BY <1>6, <3>1, PlacesReleased
    <2>2. e.scope = Native!Released(hScope, of)
      BY <1>4, <1>5, Zenon
    <2> QED
      BY <1>3, <2>1, <2>2
  <1>10. ASSUME NEW o \in C
         PROVE  PlacesOf(hScope', o) = IF o \in of THEN {} ELSE PlacesOf(hScope, o)
    <2>1. o # "null"
      BY ObjectFacts
    <2>2. PlacesOf(Native!Released(hScope, of), o) = IF o \in of THEN {} ELSE PlacesOf(hScope, o)
      BY <1>6, <2>1, PlacesReleased
    <2> QED
      BY <1>3, <2>2, Zenon
  <1>11. \A o \in C :
            /\ hRefs'[o] + Cardinality(PlacesOf(hScope, o))
               = hRefs[o] + IsIn(o, of) + Cardinality(PlacesOf(hScope', o))
            /\ hRefs'[o] = 0 => hRefs[o] = 0
            /\ hRefs'[o] # 0 => hRefs[o] # 0 \/ o \in LoneObjects
    <2> TAKE o \in C
    <2>1. hRefs'[o] = hRefs[o] /\ hRefs[o] \in Nat
      BY <1>3, <1>6
    <2>2. CASE o \in of
      <3>1. Cardinality(PlacesOf(hScope, o)) = 1 /\ IsIn(o, of) = 1
        BY <1>4, <1>5, <2>2 DEF IsIn
      <3>2. Cardinality(PlacesOf(hScope', o)) = 0
        BY <1>10, <2>2, FS_EmptySet
      <3> QED
        BY <2>1, <3>1, <3>2
    <2>3. CASE o \notin of
      <3>1. Cardinality(PlacesOf(hScope', o)) = Cardinality(PlacesOf(hScope, o))
        BY <1>10, <2>3
      <3>2. IsIn(o, of) = 0 /\ Cardinality(PlacesOf(hScope, o)) \in Nat
        BY <1>6, <2>3, PlacesAreThere DEF IsIn
      <3> QED
        BY <2>1, <3>1, <3>2
    <2> QED
      BY <2>2, <2>3
  <1>12. ASSUME NEW y \in H \ of, \E i \in 1 .. Len(hScope) : hScope[i] = y
         PROVE  \E j \in 1 .. Len(hScope') : hScope'[j] = y
    <2>1. PlacesOf(hScope', y) = PlacesOf(hScope, y)
      BY <1>10
    <2>2. PlacesOf(hScope, y) # {}
      BY <1>12 DEF PlacesOf
    <2>3. PICK j : j \in PlacesOf(hScope', y)
      BY <2>1, <2>2
    <2> QED
      BY <2>3 DEF PlacesOf
  <1>13. /\ e.ready \subseteq H \union of /\ e.apart \subseteq f.apart \ of
         /\ hTodo' = Tail(hTodo) /\ Facing(H, f, e, g)
         /\ hRefs' \in [C -> Nat]
         /\ UNCHANGED <<hPoints, hSlots, hArguments, hDropping, hCalls>>
    BY <1>3, <1>4, <1>5, <1>6
  <1>14. /\ hHolds' \in [C -> SUBSET C] /\ hHolds'[x] = hHolds[x] \union of
         /\ \A p \in C \ {x} : hHolds'[p] = hHolds[p]
         /\ \A o \in of : MayHold(x, o)
    BY <1>3, <1>5, <1>6, <1>7
  <1>15. Gains(H, x, of)
    BY <1>11, <1>12, <1>13, <1>14, Zenon DEF Gains
  <1> QED
    BY <1>1, <1>7, <1>8, <1>9, <1>13, <1>14, <1>15, HolderGets

(* The end of a function: nothing is left to do. *)
LEMMA NothingToRun ==
    ASSUME hTodo' = <<>>
    PROVE  HandlesRun'
BY DEF HandlesRun

(* An exception before anything changed, a result that nobody wants, and   *)
(* the end of a call.                                                      *)
LEMMA StepFailsKeeps ==
    ASSUME HandlesIInv, Native!StepFails \/ Native!StepDiscard \/ Native!CallEnds
    PROVE  HandlesIInv'
  <1>1. /\ hTodo' = <<>> /\ (hArguments' = hArguments \/ hArguments' = {})
        /\ UNCHANGED <<hRefs, hHolds, hPoints, hSlots, hScope, hDropping, hFaults, hCalls>>
    <2>1. CASE Native!StepFails
      BY <2>1 DEF Native!StepFails, Native!heap
    <2>2. CASE Native!StepDiscard
      <3>1. Native!Running /\ Head(hTodo).op = "return"
        BY <2>2 DEF Native!StepDiscard, Native!Step
      <3>2. Tail(hTodo) = <<>>
        BY <3>1, RunningFacts
      <3> QED
        BY <2>2, <3>2 DEF Native!StepDiscard, Native!heap
    <2>3. CASE Native!CallEnds
      BY <2>3 DEF Native!CallEnds, Native!Idle, Native!heap
    <2> QED
      BY <2>1, <2>2, <2>3
  <1>2. HandlesTypes' /\ HandlesShape'
    <2>1. <<>> \in Seq(FunctionSteps)
      BY EmptySeq
    <2>2. HandlesTypes'
      BY <1>1, <2>1 DEF HandlesIInv, HandlesTypes
    <2>3. HandlesShape'
      BY <1>1 DEF HandlesIInv, HandlesShape
    <2> QED
      BY <2>2, <2>3
  <1>3. HandlesCounts'
    <2> SUFFICES ASSUME NEW o \in Native!Counted
                 PROVE  hRefs'[o] = OwnersOf(o)'
      BY DEF HandlesCounts
    <2>1. hRefs[o] = OwnersOf(o)
      BY DEF HandlesIInv, HandlesCounts
    <2>2. OwnersOf(o)' = OwnersOf(o)
      BY <1>1 DEF OwnersOf
    <2> QED
      BY <1>1, <2>1, <2>2
  <1> QED
    BY <1>1, <1>2, <1>3, NothingToRun DEF HandlesIInv

(* A key that is freed in the output argument of a call that fails. *)
LEMMA GenerateFailsKeeps ==
    ASSUME HandlesIInv, Native!GenerateFails
    PROVE  HandlesIInv'
  <1> DEFINE C == Native!Counted
  <1>0. HandlesTypes /\ HandlesCounts /\ HandlesShape
    BY DEF HandlesIInv
  <1>1. Native!Running
    BY DEF Native!GenerateFails
  <1>2. PICK st, x : st = Native!Step /\ x = st.obj
    OBVIOUS
  <1>3. /\ st.op = "generate" /\ hTodo' = <<>> /\ hRefs' = Native!Plus({x})
        /\ hDropping = <<>> /\ hDropping' = <<x>>
        /\ UNCHANGED <<hHolds, hPoints, hSlots, hScope, hArguments, hFaults, hCalls>>
    BY <1>2 DEF Native!GenerateFails, Native!Running
  <1>4. PICK H \in SUBSET C, f \in Frames, e \in Frames, g \in Frames : StepIsSafe(st, f, e)
    BY <1>1, <1>2, StepFrames
  <1>5. x \in Native!Locals
    BY <1>2, <1>3, <1>4 DEF StepIsSafe
  <1>6. x \in C /\ x \notin Blocks \union Certs
    BY <1>5, KindsDiffer
  <1>7. /\ hRefs' \in [C -> Nat] /\ \A o \in C : hRefs'[o] = hRefs[o] + Same(x, o)
        /\ \A p \in C : hRefs'[p] = 0 => hRefs[p] = 0
        /\ \A p \in C : p # x => hRefs'[p] = hRefs[p]
    <2>1. /\ hRefs' \in [C -> Nat] /\ \A o \in C : hRefs'[o] = hRefs[o] + IsIn(o, {x})
          /\ \A p \in C : hRefs'[p] = 0 => hRefs[p] = 0
          /\ \A p \in C : p # x => hRefs'[p] = hRefs[p]
      BY <1>0, <1>3, PlusFacts
    <2>2. \A o : IsIn(o, {x}) = Same(x, o)
      BY DEF IsIn, Same
    <2> QED
      BY <2>1, <2>2
  <1>8. HandlesTypes'
    <2>1. <<>> \in Seq(FunctionSteps) /\ <<x>> \in Seq(C)
      BY <1>6, EmptySeq
    <2> QED
      BY <1>0, <1>3, <1>7, <2>1 DEF HandlesTypes
  <1>9. HandlesCounts'
    <2> SUFFICES ASSUME NEW o \in C
                 PROVE  hRefs'[o] = OwnersOf(o)'
      BY DEF HandlesCounts
    <2>1. /\ Cardinality(PlacesOf(hDropping, o)) = 0
          /\ Cardinality(PlacesOf(hDropping', o)) = Same(x, o)
      BY <1>3, PlacesOfOne, Zenon
    <2>2. OwnersOf(o)' = Cardinality(SlotsOf(hSlots, o)) + Cardinality(HoldersOf(hHolds, o))
                         + Cardinality(PlacesOf(hScope, o)) + Cardinality(PlacesOf(hDropping', o))
      BY <1>3 DEF OwnersOf
    <2>3. Same(x, o) \in Nat /\ hRefs'[o] = hRefs[o] + Same(x, o)
      BY <1>7 DEF Same
    <2> QED
      BY <1>0, <2>1, <2>2, <2>3, CountsAreSums
  <1>10. HandlesShape'
    <2>1. \A p \in Blocks \union Certs : p \in C /\ hRefs'[p] = hRefs[p]
      BY <1>6, <1>7, KindsDiffer
    <2> QED
      BY <1>0, <1>3, <1>7, <2>1 DEF HandlesShape
  <1> QED
    BY <1>3, <1>8, <1>9, <1>10, NothingToRun DEF HandlesIInv

(* The newest local ends and gives back what it owned. *)
LEMMA UnwindKeeps ==
    ASSUME HandlesIInv, Native!Unwind
    PROVE  HandlesIInv'
  <1> DEFINE C == Native!Counted
             front == Native!Front(hScope)
             last == Native!Last(hScope)
  <1>0. HandlesTypes /\ HandlesCounts /\ HandlesShape
    BY DEF HandlesIInv
  <1>1. /\ hTodo = <<>> /\ hTodo' = <<>> /\ hDropping = <<>> /\ hScope # <<>>
        /\ hDropping' = Native!Owned(last) /\ hScope' = front
        /\ UNCHANGED <<hRefs, hHolds, hPoints, hSlots, hArguments, hFaults, hCalls>>
    BY DEF Native!Unwind, Native!heap
  <1>2. front \in Seq(InScope) /\ last \in InScope /\ hScope = Append(front, last)
    BY <1>0, <1>1, FrontAndLast DEF HandlesTypes
  <1> HIDE DEF front, last
  <1>3. hDropping' = IF last = "null" THEN <<>> ELSE <<last>>
    BY <1>1 DEF Native!Owned, Native!Null
  <1>4. last # "null" => last \in C
    BY <1>2, KindsDiffer DEF InScope
  <1>5. hDropping' \in Seq(C)
    <2>1. CASE last = "null"
      BY <1>3, <2>1, EmptySeq
    <2>2. CASE last # "null"
      BY <1>3, <1>4, <2>2
    <2> QED
      BY <2>1, <2>2
  <1>6. HandlesTypes'
    BY <1>0, <1>1, <1>2, <1>5 DEF HandlesTypes
  <1>7. HandlesCounts'
    <2> SUFFICES ASSUME NEW o \in C
                 PROVE  hRefs'[o] = OwnersOf(o)'
      BY DEF HandlesCounts
    <2>1. Cardinality(PlacesOf(hScope, o)) = Cardinality(PlacesOf(front, o)) + Same(last, o)
      <3>1. Cardinality(PlacesOf(Append(front, last), o))
            = Cardinality(PlacesOf(front, o)) + Same(last, o)
        BY <1>2, PlacesAppend
      <3> QED
        BY <1>2, <3>1, Zenon
    <2>2. Cardinality(PlacesOf(hDropping, o)) = 0
      BY <1>1, PlacesOfOne, Zenon
    <2>3. Cardinality(PlacesOf(hDropping', o)) = Same(last, o)
      <3>1. CASE last = "null"
        <4>1. hDropping' = <<>> /\ Same(last, o) = 0
          BY <1>3, <3>1, ObjectFacts DEF Same
        <4> QED
          BY <4>1, PlacesOfOne, Zenon
      <3>2. CASE last # "null"
        <4>1. hDropping' = <<last>>
          BY <1>3, <3>2
        <4> QED
          BY <4>1, PlacesOfOne, Zenon
      <3> QED
        BY <3>1, <3>2
    <2>4. OwnersOf(o)' = Cardinality(SlotsOf(hSlots, o)) + Cardinality(HoldersOf(hHolds, o))
                         + Cardinality(PlacesOf(front, o)) + Cardinality(PlacesOf(hDropping', o))
      BY <1>1 DEF OwnersOf
    <2>5. Same(last, o) \in Nat /\ Cardinality(PlacesOf(front, o)) \in Nat
      BY <1>2, PlacesAreThere DEF Same
    <2>6. /\ Cardinality(SlotsOf(hSlots, o)) \in Nat
          /\ Cardinality(HoldersOf(hHolds, o)) \in Nat
          /\ hRefs'[o] = Cardinality(SlotsOf(hSlots, o)) + Cardinality(HoldersOf(hHolds, o))
                         + Cardinality(PlacesOf(hScope, o)) + Cardinality(PlacesOf(hDropping, o))
      BY <1>0, <1>1, CountsAreSums
    <2> QED
      BY ONLY <2>1, <2>2, <2>3, <2>4, <2>5, <2>6
  <1>8. HandlesShape'
    BY <1>0, <1>1 DEF HandlesShape
  <1> QED
    BY <1>1, <1>6, <1>7, <1>8, NothingToRun DEF HandlesIInv

(* The result moves to a variable of the caller, with a control block of   *)
(* its own.                                                                *)
LEMMA StepReturnKeeps ==
    ASSUME HandlesIInv, NEW s \in Slots, Native!StepReturn(s)
    PROVE  HandlesIInv'
  <1> DEFINE C == Native!Counted
  <1>0. HandlesTypes /\ HandlesCounts /\ HandlesShape
    BY DEF HandlesIInv
  <1>1. Native!Running
    BY DEF Native!StepReturn
  <1>2. PICK st, x, b : st = Native!Step /\ x = st.obj /\ b = Native!FreeBlock
    OBVIOUS
  <1>3. /\ st.op = "return" /\ hSlots[s] = "null" /\ hDropping = <<>>
        /\ hTodo' = Tail(hTodo) /\ hScope' = Native!Released(hScope, {x})
        /\ hRefs' = [hRefs EXCEPT ![b] = 1]
        /\ hHolds' = [hHolds EXCEPT ![b] = {x}]
        /\ hSlots' = [hSlots EXCEPT ![s] = b]
        /\ UNCHANGED <<hPoints, hArguments, hDropping, hFaults, hCalls>>
    BY <1>2 DEF Native!StepReturn, Native!Handle, Native!Running, Native!Null
  <1>4. hTodo' = <<>>
    <2>1. Head(hTodo).op = "return"
      BY <1>2, <1>3 DEF Native!Step
    <2> QED
      BY <1>1, <1>3, <2>1, RunningFacts
  <1>5. PICK H \in SUBSET C, f \in Frames, e \in Frames, g \in Frames :
           f.scope = hScope /\ StepIsSafe(st, f, e)
    BY <1>1, <1>2, StepFrames
  <1>6. x \in KeyObjects \union {"req"} /\ Cardinality(PlacesOf(hScope, x)) = 1
    <2>1. x \in KeyObjects \union {"req"} /\ Cardinality(PlacesOf(f.scope, x)) = 1
      BY <1>2, <1>3, <1>5 DEF StepIsSafe
    <2> QED
      BY <1>5, <2>1
  <1>7. b \in Blocks /\ b \in C /\ hRefs[b] = 0 /\ hHolds[b] = {} /\ b \notin Certs
    <2>1. b \in Blocks /\ hRefs[b] = 0
      BY <1>0, <1>2, <1>3, FreeBlockIsFree
    <2> QED
      BY <1>0, <2>1, KindsDiffer DEF HandlesShape
  <1>8. x \in C /\ x # "null" /\ MayHold(b, x)
    BY <1>6, <1>7, KindsDiffer DEF MayHold, KeyObjects, Native!Locals
  <1>9. /\ hRefs' \in [C -> Nat] /\ \A o \in C : hRefs'[o] = hRefs[o] + Same(b, o)
        /\ \A o \in C \ {b} : hRefs'[o] = hRefs[o]
        /\ hRefs'[b] = 1
    BY <1>0, <1>3, <1>7 DEF HandlesTypes, Same
  <1>10. /\ hHolds' \in [C -> SUBSET C] /\ hHolds'[b] = {x}
         /\ \A p \in C \ {b} : hHolds'[p] = hHolds[p]
    BY <1>0, <1>3, <1>7, <1>8 DEF HandlesTypes
  <1>11. /\ hSlots' \in [Slots -> Blocks \union {"null"}] /\ hSlots'[s] = b
         /\ \A t \in Slots \ {s} : hSlots'[t] = hSlots[t]
    BY <1>0, <1>3, <1>7 DEF HandlesTypes
  <1>12. "null" \in InScope /\ hScope \in Seq(InScope)
    BY <1>0 DEF InScope, HandlesTypes
  <1>13. hScope' \in Seq(InScope)
    BY <1>3, <1>8, <1>12, PlacesReleased, ZenonT(30)
  <1>14. HandlesTypes'
    <2>1. hTodo' \in Seq(FunctionSteps)
      BY <1>4, EmptySeq
    <2> QED
      BY <1>0, <1>3, <1>9, <1>10, <1>11, <1>13, <2>1 DEF HandlesTypes
  <1>15. HandlesCounts'
    <2> SUFFICES ASSUME NEW o \in C
                 PROVE  hRefs'[o] = OwnersOf(o)'
      BY DEF HandlesCounts
    <2>1. Cardinality(SlotsOf(hSlots', o)) = Cardinality(SlotsOf(hSlots, o)) + Same(b, o)
      <3>1. hSlots \in [Slots -> Blocks \union {"null"}] /\ hSlots[s] # o
        BY <1>0, <1>3, ObjectFacts DEF HandlesTypes
      <3> QED
        BY <1>11, <3>1, SlotsFilled
    <2>2. Cardinality(HoldersOf(hHolds', o)) = Cardinality(HoldersOf(hHolds, o)) + IsIn(o, {x})
      <3>1. hHolds \in [C -> SUBSET C] /\ b \in C
        BY <1>0, <1>7 DEF HandlesTypes
      <3>2. hHolds[b] \intersect {x} = {} /\ hHolds'[b] = hHolds[b] \union {x}
        BY <1>7, <1>10
      <3>3. \A p \in C \ {b} : hHolds'[p] = hHolds[p]
        BY <1>10
      <3> QED
        BY ONLY <3>1, <3>2, <3>3, HoldersGrow
    <2>3. Cardinality(PlacesOf(hScope, o)) = Cardinality(PlacesOf(hScope', o)) + IsIn(o, {x})
      <3>1. PlacesOf(hScope', o) = IF o \in {x} THEN {} ELSE PlacesOf(hScope, o)
        <4>1. o # "null"
          BY ObjectFacts
        <4>2. PICK set : set = {x}
          OBVIOUS
        <4>3. PlacesOf(Native!Released(hScope, set), o)
              = IF o \in set THEN {} ELSE PlacesOf(hScope, o)
          BY <1>12, <4>1, PlacesReleased
        <4> QED
          BY <1>3, <4>2, <4>3, Zenon
      <3>2. CASE o = x
        <4>1. PlacesOf(hScope', o) = {}
          BY <3>1, <3>2
        <4>2. IsIn(o, {x}) = 1 /\ Cardinality(PlacesOf(hScope, o)) = 1
          BY <1>6, <3>2 DEF IsIn
        <4>3. Cardinality(PlacesOf(hScope', o)) = 0
          BY <4>1, FS_EmptySet
        <4> QED
          BY <4>2, <4>3
      <3>3. CASE o # x
        <4>1. Cardinality(PlacesOf(hScope', o)) = Cardinality(PlacesOf(hScope, o))
          BY <3>1, <3>3
        <4>2. IsIn(o, {x}) = 0 /\ Cardinality(PlacesOf(hScope, o)) \in Nat
          BY <1>12, <3>3, PlacesAreThere DEF IsIn
        <4> QED
          BY <4>1, <4>2
      <3> QED
        BY <3>2, <3>3
    <2>4. OwnersOf(o)' = Cardinality(SlotsOf(hSlots', o)) + Cardinality(HoldersOf(hHolds', o))
                         + Cardinality(PlacesOf(hScope', o)) + Cardinality(PlacesOf(hDropping, o))
      BY <1>3 DEF OwnersOf
    <2>5. /\ Same(b, o) \in Nat /\ IsIn(o, {x}) \in Nat
          /\ Cardinality(PlacesOf(hScope', o)) \in Nat
      BY <1>13, PlacesAreThere DEF Same, IsIn
    <2>6. hRefs'[o] = hRefs[o] + Same(b, o)
      BY <1>9
    <2>7. /\ Cardinality(SlotsOf(hSlots, o)) \in Nat
          /\ Cardinality(HoldersOf(hHolds, o)) \in Nat
          /\ Cardinality(PlacesOf(hDropping, o)) \in Nat
          /\ hRefs[o] = Cardinality(SlotsOf(hSlots, o)) + Cardinality(HoldersOf(hHolds, o))
                        + Cardinality(PlacesOf(hScope, o)) + Cardinality(PlacesOf(hDropping, o))
      BY <1>0, CountsAreSums
    <2> QED
      BY ONLY <2>1, <2>2, <2>3, <2>4, <2>5, <2>6, <2>7
  <1>16. HandlesShape'
    <2>1. \A p \in C : \A o \in hHolds'[p] : MayHold(p, o)
      BY <1>0, <1>8, <1>10 DEF HandlesShape
    <2>2. \A p \in C : hRefs'[p] = 0 => p # b /\ hHolds'[p] = {} /\ hPoints'[p] = {}
      BY <1>0, <1>3, <1>9, <1>10 DEF HandlesShape
    <2>3. \A p \in Blocks : hRefs'[p] > 0 => hHolds'[p] # {}
      BY <1>0, <1>9, <1>10, KindsDiffer DEF HandlesShape
    <2>4. \A c \in Certs : hRefs'[c] > 0 => KeyOf[c] \in hHolds'[c]
      BY <1>0, <1>7, <1>9, <1>10, KindsDiffer DEF HandlesShape
    <2>5. \A t \in hArguments : hSlots'[t] # "null"
      <3>1. b # "null"
        BY <1>7, ObjectFacts
      <3> QED
        BY <1>0, <1>11, <3>1 DEF HandlesShape, HandlesTypes
    <2> QED
      BY <1>0, <1>3, <2>1, <2>2, <2>3, <2>4, <2>5 DEF HandlesShape
  <1> QED
    BY <1>4, <1>14, <1>15, <1>16, NothingToRun DEF HandlesIInv

(***************************************************************************)
(* The calls.                                                              *)
(***************************************************************************)

(* The objects that the variables in args keep *)
Within(args) ==
    LET blocks == {hSlots[s] : s \in args}
        natives == UNION {hHolds[b] : b \in blocks}
    IN  blocks \union natives \union UNION {hHolds[o] : o \in natives}

(* A function that is safe with what its arguments keep is safe to call. *)
LEMMA CallKeeps ==
    ASSUME HandlesIInv, NEW steps, NEW args \in SUBSET Slots, Native!Call(steps, args),
           \A s \in args : hSlots[s] # "null",
           NEW ready \in SUBSET Native!Counted, ready \subseteq Within(args),
           \E g \in Frames : Safely(steps, FrameOf(<<>>, ready, LoneObjects), g)
    PROVE  HandlesIInv'
  <1> DEFINE C == Native!Counted
             f == FrameOf(<<>>, ready, LoneObjects)
  <1>0. HandlesTypes /\ HandlesCounts /\ HandlesShape
    BY DEF HandlesIInv
  <1>1. /\ hCalls < MaxCalls /\ hScope = <<>> /\ hDropping = <<>>
        /\ hTodo' = steps /\ hArguments' = args /\ hCalls' = hCalls + 1
        /\ UNCHANGED <<hRefs, hHolds, hPoints, hSlots, hScope, hDropping, hFaults>>
    BY DEF Native!Call, Native!Idle, Native!heap
  <1>2. PICK g \in Frames : Safely(steps, f, g)
    OBVIOUS
  <1>3. steps \in Seq(FunctionSteps)
    BY <1>2 DEF Safely
  <1>4. f \in Frames /\ f.scope = <<>> /\ f.ready = ready /\ f.apart = LoneObjects
    <2>1. <<>> \in Seq(InScope)
      BY EmptySeq
    <2> QED
      BY <2>1 DEF FrameOf, Frames
  <1> HIDE DEF f
  <1>5. PICK H : H = Within(args)
    OBVIOUS
  <1>6. /\ H \in SUBSET C
        /\ \A x \in H : \/ \E s \in args : hSlots[s] = x
                        \/ \E p \in H : x \in hHolds[p]
    <2> DEFINE B == {hSlots[s] : s \in args}
               N == UNION {hHolds[b] : b \in B}
               K == UNION {hHolds[o] : o \in N}
    <2>1. B \subseteq C
      BY <1>0, KindsDiffer DEF HandlesTypes
    <2>2. \A x \in B : \E s \in args : hSlots[s] = x
      OBVIOUS
    <2>3. \A x \in N : \E p \in B : x \in hHolds[p]
      OBVIOUS
    <2>4. \A x \in K : \E p \in N : x \in hHolds[p]
      OBVIOUS
    <2>5. H = B \union N \union K
      BY <1>5 DEF Within
    <2> HIDE DEF B, N, K
    <2>6. \A p \in C : hHolds[p] \subseteq C
      BY <1>0 DEF HandlesTypes
    <2>7. N \subseteq C
      BY <2>1, <2>3, <2>6
    <2>8. K \subseteq C
      BY <2>4, <2>6, <2>7
    <2> QED
      BY <2>1, <2>2, <2>3, <2>4, <2>5, <2>7, <2>8
  <1>7. HandlesTypes'
    BY <1>0, <1>1, <1>3, ObjectFacts DEF HandlesTypes
  <1>8. HandlesCounts'
    <2> SUFFICES ASSUME NEW o \in C
                 PROVE  hRefs'[o] = OwnersOf(o)'
      BY DEF HandlesCounts
    <2>1. hRefs[o] = OwnersOf(o)
      BY <1>0 DEF HandlesCounts
    <2>2. OwnersOf(o)' = OwnersOf(o)
      BY <1>1 DEF OwnersOf
    <2> QED
      BY <1>1, <2>1, <2>2
  <1>9. HandlesShape'
    BY <1>0, <1>1 DEF HandlesShape
  <1>10. HandlesRun'
    <2>1. Kept(H)'
      BY <1>1, <1>6 DEF Kept
    <2>2. /\ \A p \in C : hPoints[p] = {}
          /\ \A p \in C : LoneObjects \intersect hHolds[p] = {}
      BY <1>0, <1>1, IdleIsClean
    <2>3. /\ \A p \in C : hPoints'[p] \subseteq H
          /\ \A p \in C : f.apart \intersect hHolds'[p] = {}
          /\ f.ready \subseteq H
      BY <1>1, <1>4, <1>5, <2>2
    <2>4. f.scope = hScope' /\ Safely(hTodo', f, g)
      BY <1>1, <1>2, <1>4, Zenon
    <2>5. RunIsSafe(H, f, g)'
      BY <2>1, <2>3, <2>4, Zenon DEF RunIsSafe
    <2> QED
      BY <1>4, <1>6, <2>5, Zenon DEF HandlesRun
  <1> QED
    BY <1>7, <1>8, <1>9, <1>10 DEF HandlesIInv

(* The object of a variable is held by its control block. *)
LEMMA NativeIsHeld ==
    ASSUME HandlesIInv, NEW kind, NEW s \in Native!HandlesOf(kind)
    PROVE  /\ s \in Slots /\ hSlots[s] # "null" /\ Native!Native(s) \in kind
           /\ Native!Native(s) \in Native!Counted
           /\ \A args : s \in args => Native!Native(s) \in Within(args)
           /\ \A args : s \in args /\ Native!Native(s) \in Certs =>
                 KeyOf[Native!Native(s)] \in Within(args)
  <1>0. HandlesTypes /\ HandlesCounts /\ HandlesShape
    BY DEF HandlesIInv
  <1>1. s \in Slots /\ hSlots[s] # "null" /\ Native!Native(s) \in kind
    BY DEF Native!HandlesOf, Native!Null
  <1>2. PICK b : b = hSlots[s]
    OBVIOUS
  <1>3. b \in Blocks /\ b \in Native!Counted
    BY <1>0, <1>1, <1>2, KindsDiffer DEF HandlesTypes
  <1>4. hRefs[b] >= 1 /\ hRefs[b] \in Nat
    BY <1>0, <1>1, <1>2, <1>3, OwnedIsCounted DEF HandlesTypes
  <1>5. hHolds[b] # {} /\ hHolds[b] \subseteq Native!Counted
    BY <1>0, <1>3, <1>4, SMTT(30) DEF HandlesShape, HandlesTypes
  <1>6. Native!Native(s) \in hHolds[b]
    BY <1>2, <1>5 DEF Native!Native
  <1>7. PICK x : x = Native!Native(s)
    OBVIOUS
  <1>8. x \in Certs => KeyOf[x] \in hHolds[x]
    <2>1. hRefs[x] >= 1 /\ hRefs[x] \in Nat
      BY <1>0, <1>3, <1>5, <1>6, <1>7, OwnedIsCounted DEF HandlesTypes
    <2> QED
      BY <1>0, <2>1 DEF HandlesShape
  <1>9. ASSUME NEW args, s \in args
        PROVE  x \in Within(args) /\ (x \in Certs => KeyOf[x] \in Within(args))
    <2> DEFINE B == {hSlots[t] : t \in args}
               N == UNION {hHolds[p] : p \in B}
               K == UNION {hHolds[o] : o \in N}
    <2>1. b \in B
      BY <1>2, <1>9
    <2>2. x \in N
      BY <1>6, <1>7, <2>1
    <2>3. x \in Certs => KeyOf[x] \in K
      BY <1>8, <2>2
    <2>4. Within(args) = B \union N \union K
      BY DEF Within
    <2> QED
      BY <2>2, <2>3, <2>4
  <1>10. x \in Native!Counted
    BY <1>5, <1>6, <1>7
  <1> QED
    BY <1>1, <1>7, <1>9, <1>10, Zenon

(* Calls of functions that have no argument. *)
LEMMA CallAloneKeeps ==
    ASSUME HandlesIInv, Native!CallAlone
    PROVE  HandlesIInv'
  <1>1. ASSUME NEW steps, Native!Call(steps, {}),
               \E g \in Frames : Safely(steps, FrameOf(<<>>, {}, LoneObjects), g)
        PROVE  HandlesIInv'
    BY <1>1, CallKeeps
  <1>2. CASE Native!Call(Native!GenerateKey, {})
    BY <1>1, <1>2, GenerateKeyIsSafe
  <1>3. CASE Native!Call(Native!FromECPoint, {})
    BY <1>1, <1>3, FromECPointIsSafe
  <1>4. CASE Native!Call(Native!ToIEEE1363, {})
    BY <1>1, <1>4, ToIEEE1363IsSafe
  <1>5. CASE Native!Call(Native!FromIEEE1363, {})
    BY <1>1, <1>5, FromIEEE1363IsSafe
  <1> QED
    BY <1>2, <1>3, <1>4, <1>5 DEF Native!CallAlone

(* Calls with a certificate: its key is there with it. *)
LEMMA CallWithCertificateKeeps ==
    ASSUME HandlesIInv, Native!CallWithCertificate
    PROVE  HandlesIInv'
  <1>1. PICK c \in Native!HandlesOf(Certs) : Native!Call(Native!GetPublicKey(Native!Native(c)), {c})
    BY DEF Native!CallWithCertificate
  <1>2. PICK x : x = Native!Native(c)
    OBVIOUS
  <1>3. /\ c \in Slots /\ hSlots[c] # "null" /\ x \in Certs /\ x \in Native!Counted
        /\ x \in Within({c}) /\ KeyOf[x] \in Within({c})
    <2>1. c \in {c}
      OBVIOUS
    <2> QED
      BY <1>2, <2>1, NativeIsHeld
  <1>4. {x, KeyOf[x]} \in SUBSET Native!Counted /\ {x, KeyOf[x]} \subseteq Within({c})
    BY <1>3, ObjectFacts, KindsDiffer
  <1>5. Native!Call(Native!GetPublicKey(x), {c})
    BY <1>1, <1>2, Zenon
  <1>6. \E g \in Frames :
           Safely(Native!GetPublicKey(x), FrameOf(<<>>, {x, KeyOf[x]}, LoneObjects), g)
    BY <1>3, GetPublicKeyIsSafe
  <1> QED
    BY <1>3, <1>4, <1>5, <1>6, CallKeeps

(* Calls with a key. *)
LEMMA CallWithKeyKeeps ==
    ASSUME HandlesIInv, Native!CallWithKey
    PROVE  HandlesIInv'
  <1>1. PICK k \in Native!HandlesOf(KeyObjects) :
           \/ Native!Call(Native!EncryptOAEP(Native!Native(k)), {k})
           \/ Native!Call(Native!MakeCsr(Native!Native(k)), {k})
    BY DEF Native!CallWithKey, KeyObjects
  <1>2. PICK x : x = Native!Native(k)
    OBVIOUS
  <1>3. /\ k \in Slots /\ hSlots[k] # "null" /\ x \in KeyObjects /\ x \in Native!Counted
        /\ x \in Within({k})
    <2>1. k \in {k}
      OBVIOUS
    <2> QED
      BY <1>2, <2>1, NativeIsHeld
  <1>4. {x} \in SUBSET Native!Counted /\ {x} \subseteq Within({k})
    BY <1>3
  <1>5. Native!Call(Native!EncryptOAEP(x), {k}) \/ Native!Call(Native!MakeCsr(x), {k})
    BY <1>1, <1>2, Zenon
  <1>6. \E g \in Frames : Safely(Native!EncryptOAEP(x), FrameOf(<<>>, {x}, LoneObjects), g)
    BY <1>3, EncryptOAEPIsSafe
  <1>7. \E g \in Frames : Safely(Native!MakeCsr(x), FrameOf(<<>>, {x}, LoneObjects), g)
    BY <1>3, MakeCsrIsSafe
  <1> QED
    BY <1>3, <1>4, <1>5, <1>6, <1>7, CallKeeps

(* The verification of a certificate. *)
LEMMA CallVerifyKeeps ==
    ASSUME HandlesIInv, Native!CallVerify
    PROVE  HandlesIInv'
  <1>1. PICK leaf \in Native!HandlesOf(Certs), root \in Native!HandlesOf(Certs),
             lists \in SUBSET Native!HandlesOf(Crls), between \in SUBSET Native!HandlesOf(Certs) :
           Native!Call(Native!Verify(Native!Native(leaf), {Native!Native(root)},
                                     {Native!Native(s) : s \in between},
                                     {Native!Native(s) : s \in lists}),
                       {leaf, root} \union lists \union between)
    BY DEF Native!CallVerify
  <1>2. PICK x, T, I, R, args :
           /\ x = Native!Native(leaf) /\ T = {Native!Native(root)}
           /\ I = {Native!Native(s) : s \in between}
           /\ R = {Native!Native(s) : s \in lists}
           /\ args = {leaf, root} \union lists \union between
    OBVIOUS
  <1>3. Native!Call(Native!Verify(x, T, I, R), args)
    BY <1>1, <1>2, Zenon
  <1>4. /\ leaf \in args /\ root \in args /\ between \subseteq args /\ lists \subseteq args
        /\ \A s \in args : s \in Native!HandlesOf(Certs) \/ s \in Native!HandlesOf(Crls)
    BY <1>1, <1>2
  <1>5. ASSUME NEW s \in args
        PROVE  /\ s \in Slots /\ hSlots[s] # "null" /\ Native!Native(s) \in Native!Counted
               /\ Native!Native(s) \in Within(args)
    BY <1>4, NativeIsHeld
  <1>6. \A s \in Native!HandlesOf(Certs) : Native!Native(s) \in Certs
    BY NativeIsHeld
  <1>7. \A s \in Native!HandlesOf(Crls) : Native!Native(s) \in Crls
    BY NativeIsHeld
  <1>8. /\ x \in Certs /\ T \subseteq Certs /\ I \subseteq Certs /\ R \subseteq Crls
    BY <1>1, <1>2, <1>6, <1>7
  <1>9. PICK ready : ready = {x} \union T \union I \union R
    OBVIOUS
  <1>10. \A o \in ready : o \in Native!Counted /\ o \in Within(args)
    <2>1. \A o \in ready : \E s \in args : o = Native!Native(s)
      BY <1>2, <1>4, <1>9
    <2> QED
      BY <1>5, <2>1
  <1>11. \E g \in Frames :
            Safely(Native!Verify(x, T, I, R), FrameOf(<<>>, ready, LoneObjects), g)
    <2>1. /\ ready \in SUBSET (Certs \union Crls) /\ x \in ready
          /\ T \in SUBSET (ready \intersect Certs) /\ I \in SUBSET ready /\ R \in SUBSET ready
      BY <1>8, <1>9
    <2> QED
      BY <2>1, VerifyIsSafe
  <1>12. /\ args \in SUBSET Slots /\ \A s \in args : hSlots[s] # "null"
         /\ ready \in SUBSET Native!Counted /\ ready \subseteq Within(args)
    BY <1>5, <1>10
  <1> QED
    BY <1>3, <1>11, <1>12, CallKeeps

(* Every step of the handles, and one that changes nothing, keeps the      *)
(* invariant.                                                              *)
LEMMA HandlesStep ==
    ASSUME HandlesIInv, [Native!Next]_(Native!vars)
    PROVE  HandlesIInv'
  <1>1. CASE UNCHANGED Native!vars
    <2>1. UNCHANGED <<hRefs, hHolds, hPoints, hSlots, hScope, hTodo, hArguments, hDropping,
                      hFaults, hCalls>>
      BY <1>1 DEF Native!vars
    <2>2. HandlesTypes'
      BY <2>1 DEF HandlesIInv, HandlesTypes
    <2>3. HandlesCounts' /\ HandlesShape'
      BY <2>1 DEF HandlesIInv, HandlesCounts, OwnersOf, HandlesShape
    <2>4. HandlesRun'
      BY <2>1 DEF HandlesIInv, HandlesRun, RunIsSafe, Kept
    <2> QED
      BY <2>2, <2>3, <2>4 DEF HandlesIInv
  <1>2. CASE \E s \in Slots, o \in Certs \union Crls \union Keys : Native!Load(s, o)
    BY <1>2, LoadKeeps
  <1>3. CASE \E s, t \in Slots : Native!Copy(s, t)
    BY <1>3, CopyKeeps
  <1>4. CASE \E s \in Slots : Native!Destroy(s)
    BY <1>4, DestroyKeeps
  <1>5. CASE Native!DropNext
    BY <1>5, DropKeeps
  <1>6. CASE Native!CallVerify \/ Native!CallWithCertificate \/ Native!CallWithKey \/ Native!CallAlone
    BY <1>6, CallVerifyKeeps, CallWithCertificateKeeps, CallWithKeyKeeps, CallAloneKeeps
  <1>7. CASE Native!StepNew \/ Native!StepGenerate \/ Native!StepRef
    BY <1>7, StepNewKeeps
  <1>8. CASE Native!StepDeclare \/ Native!StepAssign \/ Native!StepLeave
    BY <1>8, StepDeclareKeeps, StepAssignKeeps, StepLeaveKeeps
  <1>9. CASE Native!StepParts \/ Native!StepTake \/ Native!StepGive
    BY <1>9, StepTakeKeeps, StepGiveKeeps
  <1>10. CASE Native!StepUse \/ Native!StepPoint
    BY <1>10, StepUseKeeps
  <1>11. CASE \E s \in Slots : Native!StepReturn(s)
    BY <1>11, StepReturnKeeps
  <1>12. CASE Native!StepFails \/ Native!StepDiscard \/ Native!CallEnds
    BY <1>12, StepFailsKeeps
  <1>13. CASE Native!GenerateFails
    BY <1>13, GenerateFailsKeeps
  <1>14. CASE Native!Unwind
    BY <1>14, UnwindKeeps
  <1>15. CASE Native!Finished
    BY <1>1, <1>15 DEF Native!Finished
  <1> QED
    BY <1>1, <1>2, <1>3, <1>4, <1>5, <1>6, <1>7, <1>8, <1>9, <1>10, <1>11, <1>12, <1>13,
       <1>14, <1>15 DEF Native!Next

(* HandlesIInv is an invariant of the handles. *)
LEMMA HandlesInvariance == Native!Spec => []HandlesIInv
  <1>1. HandlesIInv /\ [Native!Next]_(Native!vars) => HandlesIInv'
    BY HandlesStep
  <1> QED
    BY <1>1, HandlesInit, PTL DEF Native!Spec
-----------------------------------------------------------------------------
(* A behaviour of the layer is one of each of these parts. *)
LEMMA PartsRun == MCSpec => Spec /\ Engine!Spec /\ Native!Spec
  <1>1. MCInit => Init /\ Engine!Init /\ Native!Init
    BY DEF MCInit
  <1>2. [MCNext]_mcvars => [Next]_vars
    BY DEF MCNext, mcvars
  <1>3. [MCNext]_mcvars => [Engine!Next]_(Engine!vars)
    BY DEF MCNext, mcvars, engineVars, Engine!vars
  <1>4. [MCNext]_mcvars => [Native!Next]_(Native!vars)
    BY DEF MCNext, mcvars, handleVars, Native!vars
  <1> QED
    BY <1>1, <1>2, <1>3, <1>4, PTL DEF MCSpec, Spec, Engine!Spec, Native!Spec

(* Whatever an OpenSSL function returns, its wrapper throws exactly when   *)
(* the value means failure (the two curve settings, which let zero pass,   *)
(* aside): the checks of every wrapper of openssl_wrap.cpp are right.      *)
THEOREM ReturnChecksRight == MCSpec => []ReturnChecksAreRight
BY PartsRun, WrapperInvariance, WrapperIInvSuffices, PTL

(* However many HsmEngine objects are made, fail to be made and end, in    *)
(* any order, the engine they share is started as long as one of them is   *)
(* alive, with a path and a PIN, and given back when none is.              *)
THEOREM EngineShared == MCSpec => []EngineIsSharedSoundly
  <1>1. EngineIInv /\ SettingsIInv => EngineIsSharedSoundly
    BY EngineIInvSuffices
  <1> QED
    BY <1>1, PartsRun, EngineInvariance, SettingsInvariance, PTL

(* Whichever call of a function fails, and whatever copies of handles      *)
(* another thread makes and gives up meanwhile, no native object is used   *)
(* after its end or ended twice, every reference count is the number of    *)
(* owners, and between two calls everything that is there belongs to a     *)
(* handle of the caller.                                                   *)
THEOREM OwnershipSound == MCSpec => []OwnershipIsSound
  <1>1. HandlesIInv => OwnershipIsSound
    BY HandlesIInvSuffices
  <1> QED
    BY <1>1, PartsRun, HandlesInvariance, PTL
=============================================================================
