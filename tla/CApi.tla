-------------------------------- MODULE CApi --------------------------------
(***************************************************************************)
(* The C API (src/DynXX-C.cxx, and the C functions of the script bridges), *)
(* as far as its callers see it: what it makes of a pointer that is null,  *)
(* and who owns what it returns.                                           *)
(*                                                                         *)
(* Numbers, flags and addresses are left out, but for a handle that is     *)
(* tested: those of a closed object are the matter of Store.               *)
(***************************************************************************)
EXTENDS Naturals

\* Two tables as one; their names differ.
Both(f, g) == [n \in DOMAIN f \cup DOMAIN g |-> IF n \in DOMAIN f THEN f[n] ELSE g[n]]

\* tests: arguments of which a null one makes the function return instead;
\* instead: what it returns then;
\* reads: arguments it reads without a test (it copies the others with
\*   makeStr, makeBytes or makeBytesView, to which null is empty);
\* each: arguments, lists, of which it reads each element without a test;
\* gives: a text or bytes from the heap (dupStr, handleBytes: null when there
\*   are none), or a value.
Function(gives) ==
  [tests |-> {}, instead |-> "value", reads |-> {}, each |-> {}, gives |-> gives]

Text  == Function("text")
Bytes == Function("bytes")
Value == Function("value")

\* A slip: the test is forgotten, and they are read.
TestsNothing(names, f) == [f EXCEPT !.reads = names]
Tests(names, f) == [f EXCEPT !.tests = names,
                             !.instead = IF f.gives = "value" THEN "value" ELSE "null"]
Literal(f) == [f EXCEPT !.instead = "literal"]
Reads(names, f) == [f EXCEPT !.reads = names]
ReadsEach(names, f) == [f EXCEPT !.each = names]

BaseApi == [get_version |-> Text, root_path |-> Text, init |-> Value, release |-> Value]

DeviceApi ==
  [device_type |-> Value, device_name |-> Text, device_manufacturer |-> Text,
   device_model |-> Text, device_os_version |-> Text, device_cpu_arch |-> Value]

LogApi == [log_set_level |-> Value, log_print |-> Tests({"content"}, Value)]

CodingApi ==
  [coding_case_upper    |-> Literal(Tests({"str"}, Text)),
   coding_case_lower    |-> Literal(Tests({"str"}, Text)),
   coding_hex_str2bytes |-> Bytes,
   coding_hex_bytes2str |-> Text,
   coding_bytes2str     |-> Text,
   coding_str2bytes     |-> Tests({"str"}, Bytes),
   coding_str_trim      |-> Literal(Tests({"str"}, Text))]

CryptoApi ==
  Both([f \in {"crypto_rand", "crypto_aes_encrypt", "crypto_aes_decrypt",
               "crypto_aes_gcm_encrypt", "crypto_aes_gcm_decrypt", "crypto_rsa_encrypt",
               "crypto_rsa_decrypt", "crypto_hash_md5", "crypto_hash_sha1",
               "crypto_hash_sha256", "crypto_base64_encode", "crypto_base64_decode"}
          |-> Bytes],
       [crypto_rsa_gen_key |-> Literal(Tests({"base64"}, Text))])

\* Its lists are vectors of std::string, made of each of their elements.
HttpApi ==
  [net_http_request |->
     ReadsEach({"headers", "names", "mimes", "datas"}, Literal(Tests({"url"}, Text))),
   net_http_download |-> Tests({"url", "file_path"}, Value)]

SqliteApi ==
  [store_sqlite_open                      |-> Value,
   store_sqlite_execute                   |-> Tests({"conn", "sql"}, Value),
   store_sqlite_query_do                  |-> Tests({"conn", "sql"}, Value),
   store_sqlite_query_read_row            |-> Value,
   store_sqlite_query_read_column_text    |->
     Literal(Tests({"query_result", "column"}, Text)),
   store_sqlite_query_read_column_integer |-> Tests({"query_result", "column"}, Value),
   store_sqlite_query_read_column_float   |-> Tests({"query_result", "column"}, Value),
   store_sqlite_query_drop                |-> Value,
   store_sqlite_close                     |-> Value]

\* store_kv_all_keys, which no binding calls, is left out.
KvApi ==
  Both([store_kv_read_string |-> Tests({"conn", "k"}, Text)],
  Both([f \in {"store_kv_write_string", "store_kv_read_integer", "store_kv_write_integer",
               "store_kv_read_float", "store_kv_write_float", "store_kv_contains",
               "store_kv_remove"} |-> Tests({"conn", "k"}, Value)],
       [f \in {"store_kv_open", "store_kv_clear", "store_kv_close"} |-> Value]))

\* json_decoder_init makes a string_view of its text.
JsonApi ==
  Both([json_to_str              |-> Text,
        json_decoder_init        |-> Reads({"json"}, Value),
        json_decoder_read_node   |-> Tests({"decoder", "k"}, Value),
        json_decoder_read_string |-> Text],
       [f \in {"json_read_type", "json_decoder_read_number", "json_decoder_read_child",
               "json_decoder_read_next", "json_decoder_release"} |-> Value])

ZipApi ==
  Both([f \in {"z_zip_init", "z_zip_input", "z_zip_process_finished", "z_zip_release",
               "z_unzip_init", "z_unzip_input", "z_unzip_process_finished",
               "z_unzip_release"} |-> Value],
       [f \in {"z_zip_process_do", "z_unzip_process_do"} |-> Bytes])

ZBytesApi == [z_bytes_zip |-> Bytes, z_bytes_unzip |-> Bytes]

LuaApi == [lua_loadF |-> Value, lua_loadS |-> Value, lua_call |-> Tests({"func"}, Text)]

JsApi ==
  [js_loadF |-> Value, js_loadS |-> Value, js_loadB |-> Value,
   js_call  |-> Literal(Tests({"func"}, Text))]

ScriptEngines == Both(LuaApi, JsApi)
Stores        == Both(SqliteApi, KvApi)
Data          == Both(CodingApi, Both(CryptoApi, Both(ZipApi, ZBytesApi)))
System        == Both(BaseApi, Both(DeviceApi, LogApi))

CFunctions ==
  Both(System, Both(Data, Both(HttpApi, Both(Stores, Both(JsonApi, ScriptEngines)))))

\* A slip: where there is nothing to return, the function returns the literal "".
AnswersLiteral(f, nulls) ==
  CASE f.tests \cap nulls # {} -> {f.instead}
    [] f.gives = "value"       -> {"value"}
    [] OTHER                   -> {"held", "literal"}

\* What f may return when the arguments of nulls are null.
Answers(f, nulls) ==
  CASE f.tests \cap nulls # {} -> {f.instead}
    [] f.gives = "value"       -> {"value"}
    [] OTHER                   -> {"held", "null"}
=============================================================================
