----------------------------- MODULE MCOpenSSL -----------------------------
(***************************************************************************)
(* Model checking of the layer between the library and OpenSSL.  A         *)
(* behaviour exercises one part, the others keep their initial state:      *)
(* OpenSSLWrapper, Handles and HsmEngine.  All bounds are in the cfg.      *)
(***************************************************************************)
EXTENDS OpenSSLWrapper, TLC

CONSTANTS
    Certs, Crls, Keys, KeyOf, Slots, Blocks, MaxCalls,      \* Handles
    Objects, MaxMade                                        \* HsmEngine

VARIABLES
    part,           \* the component this behaviour exercises
    hRefs, hHolds, hPoints, hSlots, hScope, hTodo, hArguments, hDropping,
    hFaults, hCalls,
    ePhase, eStructural, eFunctional, eStarted, eSettings, eLoads, eMade,
    eTerminated

handleVars == <<hRefs, hHolds, hPoints, hSlots, hScope, hTodo, hArguments,
                hDropping, hFaults, hCalls>>
engineVars == <<ePhase, eStructural, eFunctional, eStarted, eSettings, eLoads,
                eMade, eTerminated>>
mcvars == <<part, vars, handleVars, engineVars>>

MCKeyOf == "c1" :> "k1" @@ "c2" :> "k2"

Native == INSTANCE Handles WITH
    refs <- hRefs, holds <- hHolds, points <- hPoints, slots <- hSlots,
    scope <- hScope, todo <- hTodo, arguments <- hArguments,
    dropping <- hDropping, faults <- hFaults, calls <- hCalls

Engine == INSTANCE HsmEngine WITH
    phase <- ePhase, structural <- eStructural, functional <- eFunctional,
    started <- eStarted, settings <- eSettings, loads <- eLoads, made <- eMade,
    terminated <- eTerminated

ASSUME LayerAssumption == Native!HandlesAssumption /\ Engine!EngineAssumption

MCInit ==
    /\ part \in {"wrapper", "handles", "engine"}
    /\ Init /\ Native!Init /\ Engine!Init

MCNext ==
    \/ part = "wrapper" /\ Next /\ UNCHANGED <<part, handleVars, engineVars>>
    \/ part = "handles" /\ Native!Next /\ UNCHANGED <<part, vars, engineVars>>
    \/ part = "engine" /\ Engine!Next /\ UNCHANGED <<part, vars, handleVars>>

MCSpec == MCInit /\ [][MCNext]_mcvars
-----------------------------------------------------------------------------
(* A wrapper returns normally only if every OpenSSL call it made           *)
(* succeeded, with whichever code one fails (the two curve settings        *)
(* aside), and refuses no value that means success.                        *)
ReturnChecksAreRight ==
    /\ TypeOK
    /\ FailureIsReported
    /\ SuccessIsAccepted

(* No function uses a native object after its end or ends it twice,        *)
(* whichever of its calls fails and whatever handles another thread gives  *)
(* up meanwhile, every reference count is the number of owners, and        *)
(* between two calls every native object that is there belongs to a handle *)
(* of the caller.                                                          *)
OwnershipIsSound ==
    /\ Native!TypeOK
    /\ Native!CountsAreRight
    /\ Native!MemoryIsSafe
    /\ Native!NothingLeaks

(* As long as an HsmEngine is alive, no failing constructor and no         *)
(* destructor of another stops the engine under it, and the engine is      *)
(* stopped and given back when the last one is gone, also if some          *)
(* constructors failed half way; it never runs without a path and a PIN.   *)
EngineIsSharedSoundly ==
    /\ Engine!TypeOK
    /\ Engine!LiveObjectsCanLoad
    /\ Engine!EngineIsReleased
    /\ Engine!StartedWithSettings
=============================================================================
