---------------------------- MODULE NativeCalls ----------------------------
(***************************************************************************)
(* The calls that take memory of OpenSSL, libcurl or cJSON                 *)
(* (src/core/crypto/Crypto-OpenSSL.cxx, src/core/net/HttpClient.cxx, and   *)
(* toJson of src/DynXX-X.cxx): what each takes, and what each of its       *)
(* failures gives back.  What C++ destroys on the way out, as Evp and      *)
(* Codec, is in the back of every step that may fail.                      *)
(***************************************************************************)
EXTENDS CallSteps

\* The test of the parameters, and a call that may fail when nothing is held.
Checked == Try({})
Bare    == Try({})

Rand       == <<Checked, Bare>>
AesEncrypt == <<Checked, Bare>>
AesDecrypt == <<Checked, Bare, Bare, Bare>>   \* the last two test the padding

\* Evp's context; cipher, length of the vector, key and vector, the additional
\* data, the input, the end, and the tag.
WithEvp == Try({"ctx"})
Gcm == <<Checked, Take("ctx", {}), WithEvp, WithEvp, WithEvp, WithEvp, WithEvp, WithEvp,
         WithEvp, Free("ctx")>>

Md5 == <<Checked, Bare, Bare, Bare>>
\* Its context is made by the library, and destroyed only at the end.
Sha1   == <<Checked, Hold("ctx"), Bare, Bare, Bare, Free("ctx")>>
Sha256 == <<Checked, Bare, Bare, Bare>>

RsaGenKey == <<Checked, Bare>>
\* Codec's memory, the key read from it, and the library's call.
Rsa == <<Take("bmem", {}), Take("rsa", {"bmem"}), Try({"bmem", "rsa"}),
         Free("bmem"), Free("rsa")>>

\* BIO_push cannot fail here; from then on both are freed as a chain.
Chain == {"b64", "mem"}

Base64Encode ==
  <<Checked, Take("b64", {}), Take("mem", {"b64"}), Try(Chain), Try(Chain), Try(Chain),
    Free("b64"), Free("mem")>>
Base64Decode ==
  <<Checked, Bare, Take("mem", {}), Take("b64", {"mem"}), Try(Chain),
    Free("b64"), Free("mem")>>

\* createReq's list of headers and request's form are given to curl, which
\* does not own them.  handleSSL, which would leave the handle, does not fail:
\* checkUrlValid has parsed the same URL.
HttpRequest == <<Checked, Take("curl", {}), Hold("headerList"), Hold("cmime"), Free("curl")>>
\* sendReq cleans the handle up; a file that does not open leaves it.
HttpDownload == <<Checked, Take("curl", {}), Take("file", {}), Free("curl"), Free("file")>>
\* The object of the headers belongs to the other once it is added to it.
ToJson ==
  <<Take("cj", {}), Try({"cj"}), Try({"cj"}), Hold("cjHeaders"), Try({"cj", "cjHeaders"}),
    Try({"cj", "cjHeaders"}), Try({"cj", "cjHeaders"}), Free("cjHeaders"), Free("cj")>>

NativeCrypto ==
  [rand |-> Rand, aesEncrypt |-> AesEncrypt, aesDecrypt |-> AesDecrypt,
   aesGcmEncrypt |-> Gcm, aesGcmDecrypt |-> Gcm, hashMd5 |-> Md5, hashSha1 |-> Sha1,
   hashSha256 |-> Sha256]
NativeKeys ==
  [rsaGenKey |-> RsaGenKey, rsaEncrypt |-> Rsa, rsaDecrypt |-> Rsa,
   base64Encode |-> Base64Encode, base64Decode |-> Base64Decode]
NativeHttp ==
  [httpRequest |-> HttpRequest, httpDownload |-> HttpDownload, httpToJson |-> ToJson]

Native == Both(NativeCrypto, Both(NativeKeys, NativeHttp))
=============================================================================
