---------------------------- MODULE ScriptLibs ----------------------------
(***************************************************************************)
(* The libraries through which scripts call the SDK: scripts/JS/DynXX.js,  *)
(* whose types scripts/JS/DynXX.ts declares, and scripts/Lua/DynXX.lua.    *)
(* A wrapper builds the JSON text of its arguments, calls one bound        *)
(* function and returns what that gives, as it is or parsed.               *)
(*                                                                         *)
(* Wrappers go by the name of the bound function they are for, "calls" is  *)
(* the one they do call, "sends" the keys they write with the type of the  *)
(* argument each takes.                                                    *)
(***************************************************************************)
EXTENDS ScriptApi

Wrap(calls, sends, back) == [calls |-> calls, sends |-> sends, back |-> back]

None == <<>>       \* no key: the function without keys

-----------------------------------------------------------------------------
(* The types of arguments, and the nodes that JSON.stringify makes of them:  *)
(* Full of an argument with a value, Hollow of NaN, which is written as      *)
(* null, and of what has no elements.  "fixed" is a number that the wrapper  *)
(* makes itself, "option" a number that may be left out.                     *)

Handles == {"sqlite", "query", "kv", "zip", "unzip"}

Full ==
  [string |-> "text", number |-> "number", option |-> "number", fixed |-> "number",
   boolean |-> "bool", array |-> "array"]

Hollow == [string |-> "empty", number |-> "null", option |-> "null", array |-> "nothing"]

-----------------------------------------------------------------------------
(* scripts/JS/DynXX.js                                                      *)

JsMisc ==
  [get_version         |-> Wrap("get_version", None, "raw"),
   root_path           |-> Wrap("root_path", None, "raw"),
   device_type         |-> Wrap("device_type", None, "raw"),
   device_name         |-> Wrap("device_name", None, "raw"),
   device_manufacturer |-> Wrap("device_manufacturer", None, "raw"),
   device_os_version   |-> Wrap("device_os_version", None, "raw"),
   device_cpu_arch     |-> Wrap("device_cpu_arch", None, "raw"),
   call_platform       |-> Wrap("call_platform", None, "raw"),
   log_print           |-> Wrap("log_print", [level |-> "number", content |-> "string"], "none")]

JsHttp ==
  [net_http_request |->
     Wrap("net_http_request",
          [url |-> "string", method |-> "number", params |-> "string",
           header_v |-> "array", rawBodyBytes |-> "array", timeout |-> "fixed",
           form_field_name_v |-> "array", form_field_mime_v |-> "array",
           form_field_data_v |-> "array"], "raw"),
   net_http_download |->
     Wrap("net_http_download", [url |-> "string", file |-> "string", timeout |-> "fixed"], "raw")]

OfConn(conn, sends) == Both([conn |-> conn], sends)
OfQuery == [query_result |-> "query"]
Column  == Both(OfQuery, [column |-> "string"])

JsSqlite ==
  [store_sqlite_open     |-> Wrap("store_sqlite_open", [_id |-> "string"], "raw"),
   store_sqlite_execute  |-> Wrap("store_sqlite_execute", OfConn("sqlite", [sql |-> "string"]), "raw"),
   store_sqlite_query_do |-> Wrap("store_sqlite_query_do", OfConn("sqlite", [sql |-> "string"]), "raw"),
   store_sqlite_query_read_row            |-> Wrap("store_sqlite_query_read_row", OfQuery, "raw"),
   store_sqlite_query_read_column_text    |-> Wrap("store_sqlite_query_read_column_text", Column, "raw"),
   store_sqlite_query_read_column_integer |-> Wrap("store_sqlite_query_read_column_integer", Column, "raw"),
   store_sqlite_query_read_column_float   |-> Wrap("store_sqlite_query_read_column_float", Column, "raw"),
   store_sqlite_query_drop |-> Wrap("store_sqlite_query_drop", OfQuery, "none"),
   store_sqlite_close    |-> Wrap("store_sqlite_close", [conn |-> "sqlite"], "none")]

\* A slip: the key misspelt.
OfKeyMisspelt(sends) == OfConn("kv", Both([key |-> "string"], sends))

OfKey(sends) == OfConn("kv", Both([k |-> "string"], sends))

JsKv ==
  [store_kv_open          |-> Wrap("store_kv_open", [_id |-> "string"], "raw"),
   store_kv_read_string   |-> Wrap("store_kv_read_string", OfKey(None), "raw"),
   store_kv_write_string  |-> Wrap("store_kv_write_string", OfKey([v |-> "string"]), "raw"),
   store_kv_read_integer  |-> Wrap("store_kv_read_integer", OfKey(None), "raw"),
   store_kv_write_integer |-> Wrap("store_kv_write_integer", OfKey([v |-> "number"]), "raw"),
   store_kv_read_float    |-> Wrap("store_kv_read_float", OfKey(None), "raw"),
   store_kv_write_float   |-> Wrap("store_kv_write_float", OfKey([v |-> "number"]), "raw"),
   store_kv_all_keys      |-> Wrap("store_kv_all_keys", [conn |-> "kv"], "parsed"),
   store_kv_contains      |-> Wrap("store_kv_contains", OfKey(None), "raw"),
   store_kv_remove        |-> Wrap("store_kv_remove", OfKey(None), "none"),
   store_kv_clear         |-> Wrap("store_kv_clear", [conn |-> "kv"], "none"),
   store_kv_close         |-> Wrap("store_kv_close", [conn |-> "kv"], "none")]

OfStr   == [str |-> "string"]
OfBytes == [inBytes |-> "array"]

JsCoding ==
  [coding_case_upper    |-> Wrap("coding_case_upper", OfStr, "raw"),
   coding_case_lower    |-> Wrap("coding_case_lower", OfStr, "raw"),
   coding_hex_bytes2str |-> Wrap("coding_hex_bytes2str", OfBytes, "raw"),
   coding_hex_str2bytes |-> Wrap("coding_hex_str2bytes", OfStr, "parsed"),
   coding_bytes2str     |-> Wrap("coding_bytes2str", OfBytes, "raw"),
   coding_str2bytes     |-> Wrap("coding_str2bytes", OfStr, "parsed")]

OfKeyBytes == Both(OfBytes, [keyBytes |-> "array"])
OfGcm ==
  Both(OfKeyBytes, [initVectorBytes |-> "array", aadBytes |-> "array", tagBits |-> "number"])
\* A slip: the flag is sent as it is.
OfBase64Flag == Both(OfBytes, [noNewLines |-> "boolean"])

OfBase64 == Both(OfBytes, [noNewLines |-> "fixed"])

JsCrypto ==
  [crypto_rand            |-> Wrap("crypto_rand", [len |-> "number"], "parsed"),
   crypto_aes_encrypt     |-> Wrap("crypto_aes_encrypt", OfKeyBytes, "parsed"),
   crypto_aes_decrypt     |-> Wrap("crypto_aes_decrypt", OfKeyBytes, "parsed"),
   crypto_aes_gcm_encrypt |-> Wrap("crypto_aes_gcm_encrypt", OfGcm, "parsed"),
   crypto_aes_gcm_decrypt |-> Wrap("crypto_aes_gcm_decrypt", OfGcm, "parsed"),
   crypto_rsa_gen_key     |-> Wrap("crypto_rsa_gen_key", [base64 |-> "string", isPublic |-> "boolean"], "parsed"),
   crypto_rsa_encrypt     |-> Wrap("crypto_rsa_encrypt", OfKeyBytes, "parsed"),
   crypto_rsa_decrypt     |-> Wrap("crypto_rsa_decrypt", OfKeyBytes, "parsed"),
   crypto_hash_md5        |-> Wrap("crypto_hash_md5", OfBytes, "parsed"),
   crypto_hash_sha1       |-> Wrap("crypto_hash_sha1", OfBytes, "parsed"),
   crypto_hash_sha256     |-> Wrap("crypto_hash_sha256", OfBytes, "parsed"),
   crypto_base64_encode   |-> Wrap("crypto_base64_encode", OfBase64, "parsed"),
   crypto_base64_decode   |-> Wrap("crypto_base64_decode", OfBase64, "parsed")]

Sized == [bufferSize |-> "option", format |-> "option"]
OfInput == Both(OfBytes, [inFinish |-> "fixed"])

JsZip ==
  [z_zip_init             |-> Wrap("z_zip_init", Both(Sized, [mode |-> "option"]), "raw"),
   z_zip_input            |-> Wrap("z_zip_input", Both(OfInput, [zip |-> "zip"]), "raw"),
   z_zip_process_do       |-> Wrap("z_zip_process_do", [zip |-> "zip"], "parsed"),
   z_zip_process_finished |-> Wrap("z_zip_process_finished", [zip |-> "zip"], "raw"),
   z_zip_release          |-> Wrap("z_zip_release", [zip |-> "zip"], "none"),
   z_unzip_init             |-> Wrap("z_unzip_init", Sized, "raw"),
   z_unzip_input            |-> Wrap("z_unzip_input", Both(OfInput, [unzip |-> "unzip"]), "raw"),
   z_unzip_process_do       |-> Wrap("z_unzip_process_do", [unzip |-> "unzip"], "parsed"),
   z_unzip_process_finished |-> Wrap("z_unzip_process_finished", [unzip |-> "unzip"], "raw"),
   z_unzip_release          |-> Wrap("z_unzip_release", [unzip |-> "unzip"], "none")]

JsZBytes ==
  [z_bytes_zip   |-> Wrap("z_bytes_zip", Both(OfBytes, Both(Sized, [mode |-> "option"])), "raw"),
   z_bytes_unzip |-> Wrap("z_bytes_unzip", Both(OfBytes, Sized), "raw")]

JsStore == Both(JsSqlite, JsKv)
JsZ     == Both(JsZip, JsZBytes)

Js == Both(Both(Both(JsMisc, JsHttp), JsStore), Both(JsCoding, Both(JsCrypto, JsZ)))

-----------------------------------------------------------------------------
(* scripts/Lua/DynXX.lua: the same wrappers, but for what is said below     *)

\* get_version and root_path are called without an argument, and the binding
\* raises an error for that (luaL_checkstring); there is no call_platform.
LuaMisc ==
  [f \in DOMAIN JsMisc \ {"call_platform"} |->
     IF f \in {"get_version", "root_path"} THEN Wrap("error", None, "raw") ELSE JsMisc[f]]

\* No forms.
LuaHttp ==
  [net_http_request |->
     Wrap("net_http_request",
          [url |-> "string", method |-> "number", params |-> "string",
           header_v |-> "array", rawBodyBytes |-> "array", timeout |-> "fixed"], "raw"),
   net_http_download |-> JsHttp.net_http_download]

\* A slip: the text of a result is not parsed.
LuaCodingRaw == [f \in DOMAIN JsCoding |-> [JsCoding[f] EXCEPT !.back = "raw"]]

LuaCoding == JsCoding
LuaCrypto == JsCrypto
LuaSqlite == JsSqlite
LuaKv     == JsKv
LuaZip    == JsZip

\* The buffer's size is the library's, the format and the mode have defaults, and
\* both call z_bytes_unzip.
LuaZBytes ==
  LET sized == [bufferSize |-> "fixed", format |-> "fixed"]
  IN  [z_bytes_zip   |-> Wrap("z_bytes_unzip", Both(OfBytes, Both(sized, [mode |-> "fixed"])), "parsed"),
       z_bytes_unzip |-> Wrap("z_bytes_unzip", Both(OfBytes, sized), "parsed")]

LuaStore == Both(LuaSqlite, LuaKv)
LuaZ     == Both(LuaZip, LuaZBytes)

Lua == Both(Both(Both(LuaMisc, LuaHttp), LuaStore), Both(LuaCoding, Both(LuaCrypto, LuaZ)))

Lib(lang) == IF lang = "js" THEN Js ELSE Lua
=============================================================================
