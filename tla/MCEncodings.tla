---------------------------- MODULE MCEncodings ----------------------------
(***************************************************************************)
(* Model checking of the conversions at the border of the library.  A      *)
(* behaviour exercises one part, the others keep an initial state:         *)
(* Asn1Time, HexCodec, Bio and PemChain.  All limits are in the cfg.       *)
(***************************************************************************)
EXTENDS Asn1Time

CONSTANTS
    Alphabet, Octets, HexLength,        \* HexCodec
    MaxBytes, Newlines, BuffSize,       \* Bio
    PemLength, LineLength, SizeMod      \* PemChain

VARIABLES
    part,           \* the component this behaviour exercises
    hInput, hCall, hResult,
    bType, bContent, bWritten, bPhase, bOutput, bResult, bException, bShortfall,
    pKind, pText, pPos, pPemList, pLoaded, pOutcome

hexVars == <<hInput, hCall, hResult>>
bioVars == <<bType, bContent, bWritten, bPhase, bOutput, bResult, bException, bShortfall>>
pemVars == <<pKind, pText, pPos, pPemList, pLoaded, pOutcome>>
mcvars == <<part, vars, hexVars, bioVars, pemVars>>

(* Short days and narrow integers: an int64_t is wider than an int full of *)
(* days; time_t is narrower than ASN1_TIME below and wider above, and a    *)
(* time point narrower on both sides.                                      *)
MCSamples == Int64Min .. Int64Max
MCMinTime == -14
MCAdjMin == -9
MCTimeTMin == -11
MCTimePointMin == -5

Hex == INSTANCE HexCodec WITH
    MaxLength <- HexLength,
    input <- hInput, call <- hCall, result <- hResult

BioObject == INSTANCE Bio WITH
    type <- bType, content <- bContent, written <- bWritten, phase <- bPhase,
    output <- bOutput, result <- bResult, exception <- bException,
    shortfall <- bShortfall

Pem == INSTANCE PemChain WITH
    MaxLength <- PemLength,
    kind <- pKind, text <- pText, pos <- pPos, pemList <- pPemList,
    loaded <- pLoaded, outcome <- pOutcome

ASSUME EncodingsAssumption ==
    Hex!HexAssumption /\ BioObject!BioAssumption /\ Pem!PemAssumption

MCInit ==
    /\ part \in {"time", "hex", "bio", "pem"}
    /\ Init
    /\ part = "time" \/ time = 0
    /\ BioObject!Init
    /\ part = "bio" \/ bType = "MEM"
    /\ IF part = "hex" THEN Hex!Init
       ELSE hCall = "toHex" /\ hInput = <<>> /\ hResult = [end |-> "none", bytes |-> <<>>]
    /\ IF part = "pem" THEN Pem!Init
       ELSE /\ pKind = "single" /\ pText = <<>> /\ pPos = 0 /\ pPemList = <<pText>>
            /\ pLoaded = <<>> /\ pOutcome = "load"

Bio(action) == part = "bio" /\ action /\ UNCHANGED <<part, vars, hexVars, pemVars>>
PemText(action) == part = "pem" /\ action /\ UNCHANGED <<part, vars, hexVars, bioVars>>

MCNext ==
    \/ part = "time" /\ Next /\ UNCHANGED <<part, hexVars, bioVars, pemVars>>
    \/ part = "hex" /\ Hex!Next /\ UNCHANGED <<part, vars, bioVars, pemVars>>
    \/ Bio(BioObject!Next)
    \/ PemText(Pem!Next)

(* The loops of Bio and PemChain wait for nothing outside of them. *)
MCSpec ==
    /\ MCInit /\ [][MCNext]_mcvars
    /\ WF_mcvars(Bio(BioObject!FlushToStringStep))
    /\ WF_mcvars(Bio(BioObject!FlushToVectorStep))
    /\ WF_mcvars(PemText(Pem!SplitStep \/ Pem!SplitEnd \/ Pem!LoadStep \/ Pem!LoadEnd))
-----------------------------------------------------------------------------
(* Reading back with fromHex() what toHex() wrote gives the data.          *)
(* fromHex() takes a string of digits, in either case and with 0x before   *)
(* them or not, for its bytes, and refuses a letter that is no digit       *)
(* wherever it stands.                                                     *)
HexMeansItsBytes ==
    /\ Hex!TypeOK
    /\ Hex!RoundTrip
    /\ Hex!DigitsMeanBytes

(* A memory BIO is a queue of bytes: what goes in comes out once, in       *)
(* order, all of it by the next flush of either kind, and a                *)
(* write(std::vector) that returned has put all of its bytes in.           *)
BioKeepsBytes ==
    /\ []BioObject!TypeOK
    /\ BioObject!VectorWritesArrive
    /\ BioObject!FlushTakesAll
    /\ BioObject!RefinesByteStream

(* A flush of a BIO that was called returns or throws, and so does loading *)
(* a chain, whatever text it is given.                                     *)
LoopsEnd ==
    /\ BioObject!FlushTerminates
    /\ part = "pem" => Pem!Terminates

(* splitPEMChain() never looks beyond its text, refuses no list of PEMs    *)
(* and loses nothing but white space; a loader returns one object for each *)
(* element, with its first content, and of a list of PEMs the whole of it. *)
ChainsAreLoadedWhole ==
    /\ Pem!TypeOK
    /\ Pem!SplitKeepsContent
    /\ Pem!ListsAreSplit
    /\ Pem!LoadedIsTheChain
=============================================================================
