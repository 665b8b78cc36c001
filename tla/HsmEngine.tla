----------------------------- MODULE HsmEngine -----------------------------
(***************************************************************************)
(* HsmEngine (hsm.cpp): the objects that callers, maybe in several         *)
(* threads, make for one OpenSSL ENGINE, which counts structural           *)
(* references (the structure exists) and functional ones (it is            *)
(* initialised).  Every call of the constructor may fail; the destructor   *)
(* does not run for an object whose constructor threw.                     *)
(***************************************************************************)
EXTENDS Naturals, FiniteSets

CONSTANTS
    Objects,        \* HsmEngine objects
    MaxMade         \* bound: constructor calls

EngineAssumption == IsFiniteSet(Objects) /\ MaxMade \in Nat

VARIABLES
    phase,          \* how far an object is: its next constructor step, or its end
    structural, functional,     \* references of the ENGINE
    started,        \* whether the engine's own init function has run last
    settings,       \* the object whose path and whose PIN the ENGINE has, if any
    loads,          \* how loading a key ended: "key" or "not initialised"
    made,           \* constructor calls so far
    terminated      \* an exception left a destructor

vars == <<phase, structural, functional, started, settings, loads, made, terminated>>

Commands == {"MODULE_PATH", "PIN"}

Init ==
    /\ phase = [o \in Objects |-> "none"]
    /\ structural = 0 /\ functional = 0 /\ started = FALSE
    /\ settings = [command \in Commands |-> {}]
    /\ loads = {} /\ made = 0 /\ terminated = FALSE

Goes(o, to) == phase' = [phase EXCEPT ![o] = to]

(* _ENGINE_by_id(): a structural reference, which _engine owns from then on *)
FindById(o) ==
    /\ ~terminated /\ phase[o] = "none" /\ made < MaxMade
    /\ Goes(o, "MODULE_PATH") /\ structural' = structural + 1 /\ made' = made + 1
    /\ UNCHANGED <<functional, started, settings, loads, terminated>>

(* _ENGINE_ctrl_cmd_string() for the path and then for the PIN: the ENGINE *)
(* is shared and keeps what it was told last, by any object                *)
Control(o) ==
    /\ ~terminated /\ phase[o] \in Commands
    /\ Goes(o, IF phase[o] = "MODULE_PATH" THEN "PIN" ELSE "init")
    /\ settings' = [settings EXCEPT ![phase[o]] = {o}]
    /\ UNCHANGED <<structural, functional, started, loads, made, terminated>>

(* _ENGINE_init(): a functional reference, which is a structural one too;  *)
(* OpenSSL starts the engine with the first                                *)
InitEngine(o) ==
    /\ ~terminated /\ phase[o] = "init"
    /\ Goes(o, "live")
    /\ functional' = functional + 1 /\ structural' = structural + 1 /\ started' = TRUE
    /\ UNCHANGED <<settings, loads, made, terminated>>

(* mutation: the constructor cleans up as the destructor does *)
ConstructorFailsFinishes(o) ==
    /\ ~terminated /\ phase[o] \in {"MODULE_PATH", "PIN", "init"}
    /\ Goes(o, "none")
    /\ functional' = (IF functional > 0 THEN functional - 1 ELSE 0)
    /\ structural' = structural - 1 /\ started' = (functional > 1)
    /\ UNCHANGED <<settings, loads, made, terminated>>

(* A call of the constructor throws: _engine gives its reference back *)
ConstructorFails(o) ==
    /\ ~terminated /\ phase[o] \in {"MODULE_PATH", "PIN", "init"}
    /\ Goes(o, "none") /\ structural' = structural - 1
    /\ UNCHANGED <<functional, started, settings, loads, made, terminated>>

(* loadPublicKey() and loadPrivateKey(): OpenSSL refuses an engine without *)
(* a functional reference                                                  *)
LoadKey(o) ==
    /\ ~terminated /\ phase[o] = "live"
    /\ loads' = loads \union {IF started THEN "key" ELSE "not initialised"}
    /\ UNCHANGED <<phase, structural, functional, started, settings, made, terminated>>

(* ~HsmEngine(): _ENGINE_finish(), which stops the engine with the last    *)
(* functional reference, and then the unique pointer                       *)
Destroy(o) ==
    /\ ~terminated /\ phase[o] = "live"
    /\ Goes(o, "none")
    /\ functional' = functional - 1 /\ structural' = structural - 2
    /\ started' = (functional > 1)
    /\ UNCHANGED <<settings, loads, made, terminated>>

(* ~HsmEngine() when the engine's finish function fails: _ENGINE_finish()  *)
(* throws, and an exception of a destructor ends the program               *)
DestroyFails(o) ==
    /\ ~terminated /\ phase[o] = "live" /\ functional = 1
    /\ terminated' = TRUE
    /\ UNCHANGED <<phase, structural, functional, started, settings, loads, made>>

(* The program ends, by itself or by the exception of a destructor *)
Finished ==
    /\ terminated \/ (made = MaxMade /\ \A o \in Objects : phase[o] = "none")
    /\ UNCHANGED vars

Next ==
    \/ Finished
    \/ \E o \in Objects :
        \/ FindById(o)
        \/ Control(o)
        \/ InitEngine(o)
        \/ ConstructorFails(o)
        \/ LoadKey(o)
        \/ Destroy(o)
        \/ DestroyFails(o)

Spec == Init /\ [][Next]_vars
-----------------------------------------------------------------------------
Live == {o \in Objects : phase[o] = "live"}
Holding == {o \in Objects : phase[o] # "none"}

(* The counters have their ranges *)
TypeOK ==
    /\ phase \in [Objects -> {"none", "MODULE_PATH", "PIN", "init", "live"}]
    /\ structural \in 0..(2 * Cardinality(Objects))
    /\ functional \in 0..structural
    /\ settings \in [Commands -> SUBSET Objects]
    /\ made \in 0..MaxMade

(* As long as an object is alive, no failing constructor and no destructor *)
(* of another object stops the engine under it.                            *)
LiveObjectsCanLoad == "not initialised" \notin loads /\ (Live # {} => started)

(* The engine is stopped and given back when the last object is gone, also *)
(* if some constructors failed half way                                    *)
EngineIsReleased ==
    Holding = {} => structural = 0 /\ functional = 0 /\ ~started

(* The engine is never started before it has a path and a PIN.  They need  *)
(* not be of one object, nor of the one that starts it: a second object    *)
(* overwrites them, and a constructor that fails leaves its own behind.    *)
StartedWithSettings ==
    started => \A command \in Commands : settings[command] # {}
=============================================================================
