------------------------- MODULE MCX509Verification -------------------------
(* A PKI for X509Verification: root - int1 - int2 - leaf, where int1 may   *)
(* have one CA below it and expires first.  root revoked int1 in an older  *)
(* CRL and not in the newer one; the later CRL of int2 is a forgery.       *)
EXTENDS X509Verification, TLC

CONSTANTS root, int1, int2, leaf, rootOld, rootNew, int1Crl, int2Crl, forged,
          never, unset

MCCerts == {root, int1, int2, leaf}
MCCrls == {rootOld, rootNew, int1Crl, int2Crl, forged}
MCIssuer == root :> root @@ int1 :> root @@ int2 :> int1 @@ leaf :> int2
MCNotBefore == root :> 1 @@ int1 :> 1 @@ int2 :> 1 @@ leaf :> 2
MCNotAfter == root :> 4 @@ int1 :> 3 @@ int2 :> 4 @@ leaf :> 4
MCIsCA == root :> TRUE @@ int1 :> TRUE @@ int2 :> TRUE @@ leaf :> FALSE
MCPathLen == root :> 2 @@ int1 :> 1 @@ int2 :> 0 @@ leaf :> 0
MCCrlIssuer == rootOld :> root @@ rootNew :> root @@ int1Crl :> int1
               @@ int2Crl :> int2 @@ forged :> int2
MCCrlSigner == [MCCrlIssuer EXCEPT ![forged] = leaf]
MCLastUpdate == rootOld :> 1 @@ rootNew :> 2 @@ int1Crl :> 1
                @@ int2Crl :> 1 @@ forged :> 2
MCNextUpdate == rootOld :> 3 @@ rootNew :> 4 @@ int1Crl :> 4
                @@ int2Crl :> 3 @@ forged :> 4
MCRevoked == rootOld :> {int1} @@ rootNew :> {} @@ int1Crl :> {}
             @@ int2Crl :> {} @@ forged :> {}
MCTimes == 2 .. 3
=============================================================================
