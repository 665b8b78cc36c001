------------------------------ MODULE MCECIES ------------------------------
(***************************************************************************)
(* Model checking of ECIES.  A behaviour exercises one part, the other     *)
(* keeps an initial state: the two contexts of ECIES, and ECIESBuilder.    *)
(* All bounds are in the cfgs.                                             *)
(***************************************************************************)
EXTENDS ECIES

CONSTANTS
    KeySizes, MaxBuilds         \* ECIESBuilder

VARIABLES
    part,           \* the component this behaviour exercises
    bParams, bCaller, bAsked, bBuilt

builderVars == <<bParams, bCaller, bAsked, bBuilt>>
mcvars == <<part, vars, builderVars>>

(* No salt and a salt of one byte. *)
MCMacSalts == {<<>>} \cup {<<unit>> : unit \in Foreign}

Builder == INSTANCE ECIESBuilder WITH
    params <- bParams, caller <- bCaller, asked <- bAsked, built <- bBuilt

ASSUME BuilderSizesAssumption == Builder!ECIESBuilderAssumption

MCInit ==
    /\ part \in {"contexts", "builder"}
    /\ Init
    /\ \/ part = "contexts"
       \/ LET context == NewContext(CHOOSE key \in Keys : TRUE, <<>>)
          IN  enc = context /\ dec = context
    /\ Builder!Init

MCNext ==
    \/ part = "contexts" /\ Next /\ UNCHANGED <<part, builderVars>>
    \/ part = "builder" /\ Builder!Next /\ UNCHANGED <<part, vars>>

MCSpec == MCInit /\ [][MCNext]_mcvars
-----------------------------------------------------------------------------
(* What the caller set on the builder is what its contexts use, no context *)
(* is built without one of its functions or key sizes, and a builder that  *)
(* is only ever asked for contexts of one direction gives each the cipher  *)
(* of that direction, whatever failed in between.                          *)
BuiltContextsAreSound ==
    /\ Builder!TypeOK
    /\ Builder!CallerSettingsKept
    /\ Builder!BuiltContextsComplete
    /\ Builder!OneDirectionBuildsFit

(* What ecies.h says of the default cipher: a context that encrypts uses   *)
(* an encryptor and one that decrypts a decryptor, also if one builder     *)
(* made both.                                                              *)
DefaultCipherFitsContext == Builder!DefaultCipherFitsContext
=============================================================================
