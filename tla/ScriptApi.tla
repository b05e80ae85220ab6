----------------------------- MODULE ScriptApi -----------------------------
(***************************************************************************)
(* The functions the SDK binds into its script engines                     *)
(* (src/bridge/ScriptAPI.cxx).  Each takes one JSON text, reads its        *)
(* parameters from it with the decoder of src/core/json/JsonCodec.cxx, and *)
(* either returns a default, or calls the C++ API, or throws: a number is  *)
(* read with optional::value().                                            *)
(*                                                                         *)
(* A JSON text is a function from keys to kinds of nodes; what the texts   *)
(* and numbers say is left out, but for the text of an address and the     *)
(* empty text, which is what a failed open returns.                        *)
(***************************************************************************)
EXTENDS Naturals, Sequences, FiniteSetsExt

\* The entries of f and of g, those of f where both have one.
Both(f, g) ==
  [x \in DOMAIN f \cup DOMAIN g |-> IF x \in DOMAIN f THEN f[x] ELSE g[x]]

NodeKinds ==
  {"absent", "null", "bool", "number", "text", "empty", "address", "array", "nothing"}
       \* "nothing": an array without elements

NodeOf(json, key) == IF key \in DOMAIN json THEN json[key] ELSE "absent"

-----------------------------------------------------------------------------
(* Reading a node *)

\* Decoder::readString gives a text for every node but null.
ReadString(node) == node \notin {"absent", "null"}

\* Decoder::readNumber: of a text it is str2float64, whose default is a number.
ReadNumber(node) == node \in {"number", "text", "empty", "address"}

\* A slip: the text of an address is read as a number of 32 bits.
PointerNarrow(node) == IF node = "absent" THEN "null" ELSE "wild"

\* parsePtr: str2int64 of a text that is no number is the least int64_t, and
\* the pointer made of it is not null.
Pointer(node) ==
  CASE ~ReadString(node)   -> "null"
    [] node = "address"    -> "object"
    [] OTHER               -> "wild"

\* parseNum hands a node that is there to readNumber and takes its value().
Throws(param, node) ==
  /\ param.as = "number"
  /\ node # "absent"
  /\ ~ReadNumber(node)

\* What the function takes for a parameter that was given.
Given(param, node) ==
  CASE param.as = "text"    -> ReadString(node)
    [] param.as = "number"  -> node # "absent"
    [] param.as = "pointer" -> Pointer(node) # "null"
    [] param.as = "array"   -> node = "array"

-----------------------------------------------------------------------------
(* A function reads its parameters in stages: it reads those of one stage,  *)
(* returns its default if one that it must have was not given, and goes on  *)
(* to the next.  Keys of one set of "together" are given all or none.       *)

Need(key, as) == [key |-> key, as |-> as, must |-> TRUE]
May(key, as)  == [key |-> key, as |-> as, must |-> FALSE]
Fn(stages, gives) == [stages |-> stages, gives |-> gives, together |-> {}]

Together(sets, f) == [f EXCEPT !.together = sets]

Handle(key) == Need(key, "pointer")

Params(f) == UNION {f.stages[i] : i \in DOMAIN f.stages}
Keys(f)   == {p.key : p \in Params(f)}

ThrowsAt(f, i, json) == \E p \in f.stages[i] : Throws(p, NodeOf(json, p.key))

Torn(f, json) ==
  \E together \in f.together : \E k, l \in together :
    LET param(key) == CHOOSE p \in Params(f) : p.key = key
    IN  /\ Given(param(k), NodeOf(json, k))
        /\ ~Given(param(l), NodeOf(json, l))

RejectsAt(f, i, json) ==
  \/ \E p \in f.stages[i] : p.must /\ ~Given(p, NodeOf(json, p.key))
  \/ Torn(f, json)

\* How a call ends: with its default, with an exception, or in the C++ API.
Outcome(f, json) ==
  LET ends == {i \in DOMAIN f.stages : ThrowsAt(f, i, json) \/ RejectsAt(f, i, json)}
  IN  CASE ends = {}                      -> "called"
        [] ends # {} /\ ThrowsAt(f, Min(ends), json) -> "threw"
        [] OTHER                          -> "default"

\* The pointers the C++ API is called with.
PointersOf(f, json) ==
  {[key |-> p.key, is |-> Pointer(NodeOf(json, p.key))] :
     p \in {q \in Params(f) : q.as = "pointer"}}

-----------------------------------------------------------------------------
(* The functions.  "gives": a text, a number, a flag, nothing, an address,  *)
(* a JSON array of bytes or texts, or a JSON object; the default is the     *)
(* empty text, 0 or false.                                                  *)

Text(key) == Need(key, "text")
Number(key) == Need(key, "number")
Bytes(key) == Need(key, "array")

MiscApi ==
  [get_version         |-> Fn(<<>>, "text"),
   root_path           |-> Fn(<<>>, "text"),
   device_type         |-> Fn(<<>>, "number"),
   device_name         |-> Fn(<<>>, "text"),
   device_manufacturer |-> Fn(<<>>, "text"),
   device_os_version   |-> Fn(<<>>, "text"),
   device_cpu_arch     |-> Fn(<<>>, "number"),
   call_platform       |-> Fn(<<>>, "text"),     \* takes a plain text
   log_print           |-> Fn(<<{Number("level"), Text("content")}>>, "void")]

FormKeys == {"form_field_name_v", "form_field_mime_v", "form_field_data_v"}

HttpApi ==
  [net_http_request |->
     Together({FormKeys, {"cFILE", "fileSize"}},
       Fn(<<{Text("url"), Number("method"), May("params", "text"),
             May("rawBodyBytes", "array"), May("header_v", "array"),
             May("cFILE", "pointer"), May("fileSize", "number"),
             May("timeout", "number")}
            \cup {May(k, "array") : k \in FormKeys}>>, "json")),
   net_http_download |->
     Fn(<<{Text("url"), Text("file"), May("timeout", "number")}>>, "flag")]

Query(params, gives) == Fn(<<{Handle("query_result")} \cup params>>, gives)

SqliteApi ==
  [store_sqlite_open     |-> Fn(<<{Text("_id")}>>, "handle"),
   store_sqlite_execute  |-> Fn(<<{Handle("conn"), Text("sql")}>>, "flag"),
   store_sqlite_query_do |-> Fn(<<{Handle("conn"), Text("sql")}>>, "handle"),
   store_sqlite_close    |-> Fn(<<{Handle("conn")}>>, "void")]

QueryApi ==
  [store_sqlite_query_read_row            |-> Query({}, "flag"),
   store_sqlite_query_read_column_text    |-> Query({Text("column")}, "text"),
   store_sqlite_query_read_column_integer |-> Query({Text("column")}, "number"),
   store_sqlite_query_read_column_float   |-> Query({Text("column")}, "number"),
   store_sqlite_query_drop                |-> Query({}, "void")]

Kv(params, gives) == Fn(<<{Handle("conn")} \cup params>>, gives)

KvValueApi ==
  [store_kv_open          |-> Fn(<<{Text("_id")}>>, "handle"),
   store_kv_read_string   |-> Kv({Text("k")}, "text"),
   store_kv_write_string  |-> Kv({Text("k"), May("v", "text")}, "flag"),
   store_kv_read_integer  |-> Kv({Text("k")}, "number"),
   store_kv_write_integer |-> Kv({Text("k"), May("v", "number")}, "flag"),
   store_kv_read_float    |-> Kv({Text("k")}, "number"),
   store_kv_write_float   |-> Kv({Text("k"), May("v", "number")}, "flag")]

KvKeyApi ==
  [store_kv_all_keys |-> Kv({}, "strings"),
   store_kv_contains |-> Kv({Text("k")}, "flag"),
   store_kv_remove   |-> Kv({Text("k")}, "flag"),
   store_kv_clear    |-> Kv({}, "void"),
   store_kv_close    |-> Kv({}, "void")]

CodingApi ==
  [coding_case_upper    |-> Fn(<<{Text("str")}>>, "text"),
   coding_case_lower    |-> Fn(<<{Text("str")}>>, "text"),
   coding_hex_bytes2str |-> Fn(<<{Bytes("inBytes")}>>, "text"),
   coding_hex_str2bytes |-> Fn(<<{Text("str")}>>, "bytes"),
   coding_bytes2str     |-> Fn(<<{Bytes("inBytes")}>>, "text"),
   coding_str2bytes     |-> Fn(<<{Text("str")}>>, "bytes")]

Keyed  == <<{Bytes("inBytes")}, {Bytes("keyBytes")}>>
Gcm    == <<{Bytes("inBytes")}, {Bytes("keyBytes")}, {Bytes("initVectorBytes")},
            {May("aadBytes", "array"), May("tagBits", "number")}>>
Padded == <<{Bytes("inBytes")}, {Bytes("keyBytes")}, {Number("padding")}>>

AesApi ==
  [crypto_rand            |-> Fn(<<{Number("len")}>>, "bytes"),
   crypto_aes_encrypt     |-> Fn(Keyed, "bytes"),
   crypto_aes_decrypt     |-> Fn(Keyed, "bytes"),
   crypto_aes_gcm_encrypt |-> Fn(Gcm, "bytes"),
   crypto_aes_gcm_decrypt |-> Fn(Gcm, "bytes")]

RsaApi ==
  [crypto_rsa_gen_key |-> Fn(<<{Text("base64")}, {Number("isPublic")}>>, "text"),
   crypto_rsa_encrypt |-> Fn(Padded, "bytes"),
   crypto_rsa_decrypt |-> Fn(Padded, "bytes")]

HashApi ==
  [crypto_hash_md5      |-> Fn(<<{Bytes("inBytes")}>>, "bytes"),
   crypto_hash_sha1     |-> Fn(<<{Bytes("inBytes")}>>, "bytes"),
   crypto_hash_sha256   |-> Fn(<<{Bytes("inBytes")}>>, "bytes"),
   crypto_base64_encode |-> Fn(<<{Bytes("inBytes"), May("noNewLines", "number")}>>, "bytes"),
   crypto_base64_decode |-> Fn(<<{Bytes("inBytes"), May("noNewLines", "number")}>>, "bytes")]

ZInput(z) == Fn(<<{Handle(z)}, {Bytes("inBytes")}, {Number("inFinish")}>>, "number")

ZipApi ==
  [z_zip_init             |-> Fn(<<{Number("mode"), Number("bufferSize"), Number("format")}>>, "handle"),
   z_zip_input            |-> ZInput("zip"),
   z_zip_process_do       |-> Fn(<<{Handle("zip")}>>, "bytes"),
   z_zip_process_finished |-> Fn(<<{Handle("zip")}>>, "flag"),
   z_zip_release          |-> Fn(<<{Handle("zip")}>>, "void")]

UnzipApi ==
  [z_unzip_init             |-> Fn(<<{Number("bufferSize"), Number("format")}>>, "handle"),
   z_unzip_input            |-> ZInput("unzip"),
   z_unzip_process_do       |-> Fn(<<{Handle("unzip")}>>, "bytes"),
   z_unzip_process_finished |-> Fn(<<{Handle("unzip")}>>, "flag"),
   z_unzip_release          |-> Fn(<<{Handle("unzip")}>>, "void")]

ZBytesApi ==
  [z_bytes_zip   |-> Fn(<<{Bytes("inBytes"), Number("mode"), Number("bufferSize"), Number("format")}>>, "bytes"),
   z_bytes_unzip |-> Fn(<<{Bytes("inBytes"), Number("bufferSize"), Number("format")}>>, "bytes")]

StoreApi  == Both(Both(SqliteApi, QueryApi), Both(KvValueApi, KvKeyApi))
CryptoApi == Both(AesApi, Both(RsaApi, HashApi))
ZApi      == Both(Both(ZipApi, UnzipApi), ZBytesApi)

Api == Both(Both(Both(MiscApi, HttpApi), StoreApi), Both(CodingApi, Both(CryptoApi, ZApi)))

\* What the two engines bind; Lua has no call_platform.
JsBound  == DOMAIN Api
LuaBound == DOMAIN Api \ {"call_platform"}

\* Of the functions that JSBridge.cxx declares, those of DEF_API_ASYNC run on a
\* worker, and their result comes as a promise.
Async == {"net_http_request", "net_http_download", "store_sqlite_execute",
          "store_sqlite_query_do", "z_bytes_zip", "z_bytes_unzip"}

\* The kind of object that a function makes or deletes.
Opens ==
  [store_sqlite_open |-> "sqlite", store_sqlite_query_do |-> "query",
   store_kv_open |-> "kv", z_zip_init |-> "zip", z_unzip_init |-> "unzip"]
Deletes ==
  [store_sqlite_close |-> "sqlite", store_sqlite_query_drop |-> "query",
   store_kv_close |-> "kv", z_zip_release |-> "zip", z_unzip_release |-> "unzip"]
=============================================================================
