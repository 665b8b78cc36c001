--------------------------- MODULE OpenSSLWrapper ---------------------------
(***************************************************************************)
(* openssl_wrap.cpp and cppc/checkcall.hpp: each wrapper is a sequence of  *)
(* OpenSSL calls whose return values are judged by a policy; the first one *)
(* that is not ok ends the wrapper with an OpenSSLException.  A pointer is *)
(* 1, nullptr is 0; the message of an exception and the error queue it is  *)
(* taken from are left out.                                                *)
(***************************************************************************)
EXTENDS Integers, Sequences

VARIABLES
    running,        \* the wrapper that was called last
    pending,        \* the calls it still has to make
    failed,         \* history: an OpenSSL call of this wrapper failed
    exception       \* what left the wrapper so far

vars == <<running, pending, failed, exception>>
-----------------------------------------------------------------------------
(* mutation: negative values pass for success *)
IsNotZero(rv) == rv # 0

(* returnValueIsOk() of OpenSSLIsOneReturnCheckPolicy *)
IsOne(rv) == rv = 1

(* OpenSSLPositiveReturnCheckPolicy *)
IsPositive(rv) == rv > 0

(* OpenSSLNonNegativeReturnCheckPolicy *)
IsNonNegative(rv) == rv >= 0

(* cppc::IsNotNullptrReturnCheckPolicy *)
IsNotNullptr(rv) == rv # 0

(* The policies, and the checks written by hand in the wrappers that do    *)
(* not go through callChecked()                                            *)
ReturnValueIsOk(policy, rv) ==
    CASE policy = "IsOne"         -> IsOne(rv)
      [] policy = "IsPositive"    -> IsPositive(rv)
      [] policy = "IsNonNegative" -> IsNonNegative(rv)
      [] policy = "Ptr"           -> IsNotNullptr(rv)
      [] policy = "PkeyCmp"       -> rv \in {1, 0, -1}
      [] policy = "Bio"           -> rv # -2
      [] policy = "VerifyCert"    -> rv = 1
      [] policy = "HasLength"     -> rv > 0
      [] policy = "HasIV"         -> rv # 0
      [] policy = "Unchecked"     -> TRUE

Policies == {"IsOne", "IsPositive", "IsNonNegative", "Ptr", "PkeyCmp", "Bio",
             "VerifyCert", "HasLength", "HasIV", "Unchecked"}
-----------------------------------------------------------------------------
(* The wrappers in the order of the file.  A wrapper that makes several    *)
(* calls has a sequence of policies, one per call.                         *)
Each(wrappers, policies) == [w \in wrappers |-> policies]

(* The table that has the rows of all these tables *)
Joined(tables) ==
    [w \in UNION {DOMAIN t : t \in tables} |->
        (CHOOSE t \in tables : w \in DOMAIN t)[w]]

KeyGenerationWrappers ==
    Joined({Each({"EVP_PKEY_new", "X509_REQ_new", "EVP_PKEY_CTX_new",
                  "EVP_PKEY_CTX_new_id", "EC_KEY_get0_group"}, <<"Ptr">>),
            Each({"EVP_DigestFinal_ex", "EVP_DigestUpdate", "EVP_DigestInit_ex",
                  "EVP_PKEY_keygen", "EVP_PKEY_keygen_init",
                  "EVP_PKEY_CTX_set_rsa_keygen_bits", "EVP_PKEY_paramgen_init",
                  "EVP_PKEY_paramgen"}, <<"IsOne">>),
            Each({"EVP_PKEY_CTX_set_ec_paramgen_curve_nid",
                  "EVP_PKEY_CTX_set_ec_param_enc"}, <<"IsNonNegative">>),
            Each({"EC_GROUP_get_degree", "EC_GROUP_get_curve_name",
                  "EVP_PKEY_type", "EVP_PKEY_size"}, <<"IsPositive">>)})

RequestWrappers ==
    Joined({Each({"EVP_PKEY_cmp"}, <<"PkeyCmp">>),
            Each({"X509_NAME_new", "X509_REQ_get_subject_name",
                  "X509_REQ_get_public_key", "PEM_read_bio_X509_REQ"}, <<"Ptr">>),
            Each({"X509_NAME_add_entry_by_NID", "X509_REQ_set_subject_name",
                  "X509_REQ_set_pubkey", "X509_REQ_set_version", "X509_REQ_verify",
                  "PEM_write_bio_X509_REQ", "PEM_write_bio_X509"}, <<"IsOne">>)})

BioWrappers ==
    Joined({Each({"BIO_new", "BIO_new_file", "d2i_X509_bio",
                  "d2i_X509_REQ_bio"}, <<"Ptr">>),
            Each({"BIO_gets", "BIO_puts", "BIO_write", "BIO_read"}, <<"Bio">>),
            Each({"i2d_X509_bio", "i2d_X509_REQ_bio"}, <<"IsOne">>),
            Each({"X509_REQ_sign_ctx"}, <<"IsPositive">>)})

PemAndStoreWrappers ==
    Joined({Each({"EVP_DigestSignInit", "EVP_DigestSign",
                  "PEM_write_bio_PKCS8PrivateKey", "PEM_write_bio_PUBKEY",
                  "X509_STORE_add_cert", "X509_STORE_CTX_init",
                  "X509_VERIFY_PARAM_set_flags"}, <<"IsOne">>),
            Each({"EVP_MD_CTX_create", "PEM_read_bio_PrivateKey",
                  "PEM_read_bio_PUBKEY", "PEM_read_bio_X509",
                  "X509_STORE_CTX_get0_param"}, <<"Ptr">>),
            Each({"X509_check_ca"}, <<"Unchecked">>),
            Each({"X509_verify_cert"}, <<"VerifyCert">>)})

(* createOpenSSLObject<T>(), addObjectToStack() and the ASN1_TIME objects *)
ObjectWrappers ==
    Joined({Each({"ASN1_INTEGER_new", "X509_STORE_new", "sk_X509_CRL_new_null",
                  "X509_STORE_CTX_new", "sk_X509_new_null", "X509_new",
                  "X509_CRL_new", "HMAC_CTX_new", "CMAC_CTX_new", "ECDSA_SIG_new",
                  "X509_get_subject_name", "X509_get_issuer_name",
                  "ASN1_TIME_from_time_t", "ASN1_TIME_new",
                  "ASN1_TIME_copy"}, <<"Ptr">>),
            Each({"sk_X509_push", "sk_X509_CRL_push",
                  "ASN1_TIME_set_string"}, <<"IsPositive">>),
            Each({"ASN1_TIME_diff"}, <<"IsOne">>)})

CertificateWrappers ==
    Joined({Each({"X509_get_notBefore", "X509_get_notAfter", "X509_get_pubkey",
                  "X509_NAME_get_entry"}, <<"Ptr">>),
            Each({"X509_set_subject_name", "X509_set_issuer_name",
                  "X509_set_pubkey", "X509_set_notBefore",
                  "X509_set_notAfter"}, <<"IsOne">>),
            Each({"X509_sign"}, <<"IsPositive">>),
            Each({"X509_NAME_ENTRY_get_data"}, <<"Ptr", "Ptr", "IsNonNegative">>)})

CipherWrappers ==
    Joined({Each({"EVP_CIPHER_CTX_new", "EVP_aes_256_cbc",
                  "X509V3_EXT_conf_nid"}, <<"Ptr">>),
            Each({"EVP_CIPHER_CTX_reset", "EVP_CIPHER_CTX_ctrl",
                  "EVP_CipherInit_ex", "EVP_CipherUpdate", "EVP_CipherFinal_ex",
                  "EVP_CIPHER_CTX_set_padding", "X509_add_ext"}, <<"IsOne">>),
            Each({"EVP_CIPHER_CTX_key_length"}, <<"HasLength">>),
            Each({"EVP_CIPHER_CTX_iv_length"}, <<"HasIV">>)})

(* The conversions of serial numbers make several calls.                    *)
(* _X509_get_serialNumber_bin(), which refuses zero, is in SerialNumber.     *)
IntegerWrappers ==
    Joined({Each({"X509_get_serialNumber"}, <<"Ptr", "Ptr", "Ptr", "IsOne", "IsOne">>),
            Each({"X509_get_serialNumber_dec"}, <<"Ptr", "Ptr", "Ptr">>),
            Each({"X509_set_serialNumber"}, <<"Ptr", "IsPositive", "IsPositive">>),
            Each({"BN_bin2bn"}, <<"Ptr">>),
            Each({"BN_bn2binpad"}, <<"IsPositive">>)})

CrlWrappers ==
    Joined({Each({"d2i_X509_CRL_bio", "PEM_read_bio_X509_CRL", "X509_CRL_get_issuer",
                  "X509_CRL_get_lastUpdate", "X509_CRL_get_nextUpdate",
                  "ASN1_TIME_adj"}, <<"Ptr">>),
            Each({"PEM_write_bio_X509_CRL", "X509_CRL_verify"}, <<"IsOne">>),
            Each({"ASN1_STRING_print_ex"}, <<"IsNonNegative">>)})

PkeyOperationWrappers ==
    Joined({Each({"EVP_PKEY_sign", "EVP_PKEY_sign_init", "EVP_PKEY_verify_init",
                  "EVP_PKEY_verify", "EVP_PKEY_CTX_set_rsa_padding",
                  "EVP_PKEY_CTX_set_signature_md", "EVP_PKEY_CTX_set_rsa_pss_saltlen",
                  "EVP_PKEY_CTX_set_rsa_mgf1_md", "EVP_PKEY_encrypt_init",
                  "EVP_PKEY_encrypt", "EVP_PKEY_decrypt_init", "EVP_PKEY_decrypt",
                  "EVP_PKEY_CTX_set_rsa_oaep_md"}, <<"IsPositive">>),
            Each({"EVP_DigestVerifyInit", "EVP_DigestVerify"}, <<"IsOne">>),
            Each({"EVP_PKEY_CTX_set_rsa_oaep_label"}, <<"IsNonNegative">>)})

EcdsaWrappers ==
    Joined({Each({"OPENSSL_malloc", "EVP_PKEY_get0_EC_KEY", "ECDSA_SIG_get0_r",
                  "ECDSA_SIG_get0_s", "d2i_ECDSA_SIG"}, <<"Ptr">>),
            Each({"RAND_bytes", "ECDSA_SIG_set0"}, <<"IsOne">>),
            Each({"RSA_size"}, <<"Unchecked">>),
            Each({"i2d_ECDSA_SIG"}, <<"HasLength">>)})

KdfAndMacWrappers ==
    Each({"PKCS5_PBKDF2_HMAC", "ECDH_KDF_X9_63", "HMAC_Init_ex",
          "HMAC_Final", "HMAC_Update", "CMAC_Init", "CMAC_Update",
          "CMAC_Final"}, <<"IsOne">>)

EcAndEngineWrappers ==
    Joined({Each({"EC_KEY_oct2key"}, <<"Ptr", "IsOne">>),
            Each({"EC_KEY_key2buf"}, <<"Ptr", "IsPositive">>),
            Each({"EVP_derive_key"}, <<"Ptr", "IsOne", "IsOne", "IsOne", "IsOne">>),
            Each({"EVP_PKEY_set1_EC_KEY", "ENGINE_init", "ENGINE_ctrl_cmd_string",
                  "ENGINE_finish"}, <<"IsOne">>),
            Each({"ENGINE_by_id", "ENGINE_load_private_key",
                  "ENGINE_load_public_key"}, <<"Ptr">>)})

Wrappers ==
    Joined({KeyGenerationWrappers, RequestWrappers, BioWrappers,
            PemAndStoreWrappers, ObjectWrappers, CertificateWrappers,
            CipherWrappers, IntegerWrappers, CrlWrappers,
            PkeyOperationWrappers, EcdsaWrappers, KdfAndMacWrappers,
            EcAndEngineWrappers})
-----------------------------------------------------------------------------
(* OpenSSL: what the return values mean.  Functions that yield a pointer   *)
(* fail with nullptr; of the others, most return one on success and zero   *)
(* or less on failure, some a length or a count.                           *)
CountFunctions ==
    {"EC_GROUP_get_degree", "EC_GROUP_get_curve_name", "EVP_PKEY_type",
     "EVP_PKEY_size", "X509_REQ_sign_ctx", "X509_sign", "sk_X509_push",
     "sk_X509_CRL_push", "BN_bn2binpad", "i2d_ECDSA_SIG", "EC_KEY_key2buf",
     "EVP_CIPHER_CTX_key_length", "RSA_size", "BIO_gets", "BIO_puts",
     "BIO_write", "BIO_read", "ASN1_STRING_print_ex",
     "X509_NAME_ENTRY_get_data"}

(* Zero is an answer of these: an empty string, the end of the data, keys  *)
(* that differ, no CA.                                                     *)
ZeroIsAnAnswer ==
    {"EVP_PKEY_cmp", "ASN1_STRING_print_ex", "X509_NAME_ENTRY_get_data",
     "BIO_gets", "BIO_puts", "BIO_write", "BIO_read", "X509_check_ca"}

(* -1 is an answer of these: different key types, an empty BIO. *)
MinusOneIsAnAnswer ==
    {"EVP_PKEY_cmp", "BIO_gets", "BIO_puts", "BIO_write", "BIO_read"}

(* These report every failure with a negative value. *)
NeverReturnsZero == {"EVP_PKEY_CTX_set_rsa_oaep_label"}

(* Zero is the only failure of these: a cipher without an IV. *)
OnlyZeroFails == {"EVP_CIPHER_CTX_iv_length"}

(* These only read a field. *)
CannotFail == {"X509_check_ca", "RSA_size"}

Successes(w, policy) ==
    IF policy = "Ptr" THEN {1}
    ELSE {1} \union (IF w \in CountFunctions THEN {2} ELSE {})
             \union (IF w \in ZeroIsAnAnswer THEN {0} ELSE {})
             \union (IF w \in MinusOneIsAnAnswer THEN {-1} ELSE {})

Failures(w, policy) ==
    CASE policy = "Ptr"                          -> {0}
      [] policy # "Ptr" /\ w \in CannotFail      -> {}
      [] policy # "Ptr" /\ w \in NeverReturnsZero -> {-1, -2}
      [] policy # "Ptr" /\ w \in OnlyZeroFails   -> {0}
      [] OTHER -> {0, -1, -2} \ Successes(w, policy)
-----------------------------------------------------------------------------
Init ==
    /\ running = "none"
    /\ pending = <<>>
    /\ failed = FALSE
    /\ exception = "none"

CallWrapper(w) ==
    /\ pending = <<>>
    /\ running' = w
    /\ pending' = Wrappers[w]
    /\ failed' = FALSE
    /\ exception' = "none"

(* callChecked() with a call that succeeds *)
CallSucceeds(rv) ==
    /\ pending # <<>>
    /\ rv \in Successes(running, Head(pending))
    /\ IF ReturnValueIsOk(Head(pending), rv)
       THEN pending' = Tail(pending) /\ UNCHANGED exception
       ELSE pending' = <<>> /\ exception' = "refused"
    /\ UNCHANGED <<running, failed>>

(* callChecked() with a call that fails: handleError() throws *)
CallFails(rv) ==
    /\ pending # <<>>
    /\ rv \in Failures(running, Head(pending))
    /\ failed' = TRUE
    /\ IF ReturnValueIsOk(Head(pending), rv)
       THEN pending' = Tail(pending) /\ UNCHANGED exception
       ELSE pending' = <<>> /\ exception' = "OpenSSLException"
    /\ UNCHANGED running

Next ==
    \/ \E w \in DOMAIN Wrappers : CallWrapper(w)
    \/ \E rv \in -2 .. 2 : CallSucceeds(rv) \/ CallFails(rv)

Spec == Init /\ [][Next]_vars
-----------------------------------------------------------------------------
(* A wrapper is a sequence of known policies. *)
TypeOK ==
    /\ running \in DOMAIN Wrappers \union {"none"}
    /\ pending \in Seq(Policies)
    /\ failed \in BOOLEAN
    /\ exception \in {"none", "refused", "OpenSSLException"}

Returned == running # "none" /\ pending = <<>> /\ exception = "none"

(* The two curve settings accept zero although zero is a failure there. *)
CurveSettings == {"EVP_PKEY_CTX_set_ec_paramgen_curve_nid",
                  "EVP_PKEY_CTX_set_ec_param_enc"}

(* A wrapper returns normally only if every OpenSSL call it made           *)
(* succeeded, whichever of its calls fails and with whichever of the codes *)
(* 0, -1 and -2; the two curve settings aside.                             *)
FailureIsReported ==
    Returned /\ running \notin CurveSettings => ~failed

(* No wrapper refuses a call that succeeded: every value OpenSSL returns   *)
(* on success satisfies the policy the wrapper chose.                      *)
SuccessIsAccepted == exception # "refused"
=============================================================================
