----------------------------- MODULE NapiCalls -----------------------------
(***************************************************************************)
(* The N-API functions of the HarmonyOS library                            *)
(* (platforms/HarmonyOS/entry/src/main/cpp/napi_init.cxx): what each       *)
(* converts with napiValue2chars, napiValue2byteArray and                  *)
(* napiValue2charsArray, the C function it calls, and what it frees.  An   *)
(* argument that is refused is thrown as an exception, is null, and the    *)
(* call goes on.                                                           *)
(***************************************************************************)
EXTENDS CallSteps

NapiCipher == <<Bin("inBytes"), Bin("keyBytes")>>
NapiGcm    == <<Bin("inBytes"), Bin("keyBytes"), Bin("initVectorBytes"),
                Optional(Bin("aadBytes"))>>

NapiBase ==
  [getVersion |-> Binds("get_version", <<>>),
   init |-> Binds("init", <<Str("root")>>),
   release |-> Binds("release", <<>>),
   logSetLevel |-> Binds("log_set_level", <<>>),
   logPrint |-> Binds("log_print", <<Str("content")>>)]

\* It frees the texts of its lists, not the lists, and not the path; without
\* params it frees the literal in their place.
NapiHttp ==
  [netHttpRequest |->
     <<Get(Str("url")), Get(OrEmpty(Str("params"))),
       Get(Optional(Strs("headers"))), HoldBy("header_v", {"headers"}),
       Get(Optional(Strs("names"))), Get(Optional(Strs("mimes"))),
       Get(Optional(Strs("datas"))), HoldBy("form_field_v", {"names", "mimes", "datas"}),
       Get(Optional(Str("filePath"))), HoldBy("cFILE", {"filePath"}),
       Invoke("net_http_request"), Box, Free("result"),
       Free("headers"), Free("names"), Free("mimes"), Free("datas"),
       Free("cFILE"), Free("params"), Free("url")>>]

NapiSqlite ==
  [storeSQLiteOpen |-> Binds("store_sqlite_open", <<Str("_id")>>),
   storeSQLiteExecute |-> BindsOn(<<Conn>>, "store_sqlite_execute", <<Str("sql")>>),
   storeSQLiteQueryDo |-> BindsOn(<<Conn>>, "store_sqlite_query_do", <<Str("sql")>>),
   storeSQLiteQueryReadRow |-> Binds("store_sqlite_query_read_row", <<>>),
   storeSQLiteQueryReadColumnText |->
     BindsOn(<<Result>>, "store_sqlite_query_read_column_text", <<Str("column")>>),
   storeSQLiteQueryReadColumnInteger |->
     BindsOn(<<Result>>, "store_sqlite_query_read_column_integer", <<Str("column")>>),
   storeSQLiteQueryReadColumnFloat |->
     BindsOn(<<Result>>, "store_sqlite_query_read_column_float", <<Str("column")>>),
   storeSQLiteQueryDrop |-> Binds("store_sqlite_query_drop", <<>>),
   storeSQLiteClose |-> Binds("store_sqlite_close", <<>>)]

\* A float is read and written with the functions of integers.
NapiKv ==
  [storeKVOpen |-> Binds("store_kv_open", <<Str("_id")>>),
   storeKVReadString |-> BindsOn(<<Conn>>, "store_kv_read_string", <<Str("k")>>),
   storeKVWriteString |->
     BindsOn(<<Conn>>, "store_kv_write_string", <<Str("k"), Str("v")>>),
   storeKVReadInteger |-> BindsOn(<<Conn>>, "store_kv_read_integer", <<Str("k")>>),
   storeKVWriteInteger |-> BindsOn(<<Conn>>, "store_kv_write_integer", <<Str("k")>>),
   storeKVReadFloat |-> BindsOn(<<Conn>>, "store_kv_read_integer", <<Str("k")>>),
   storeKVWriteFloat |-> BindsOn(<<Conn>>, "store_kv_write_integer", <<Str("k")>>),
   storeKVContains |-> BindsOn(<<Conn>>, "store_kv_contains", <<Str("k")>>),
   storeKVRemove |-> BindsOn(<<Conn>>, "store_kv_remove", <<Str("k")>>),
   storeKVClear |-> Binds("store_kv_clear", <<>>),
   storeKVClose |-> Binds("store_kv_close", <<>>)]

\* The version of the system is its name.
NapiDevice ==
  [deviceType |-> Binds("device_type", <<>>),
   deviceName |-> Binds("device_name", <<>>),
   deviceManufacturer |-> Binds("device_manufacturer", <<>>),
   deviceOsVersion |-> Binds("device_name", <<>>),
   deviceCpuArch |-> Binds("device_cpu_arch", <<>>)]

NapiJson ==
  [jsonReadType |-> Binds("json_read_type", <<>>),
   jsonDecoderInit |-> Binds("json_decoder_init", <<Str("json")>>),
   jsonDecoderReadNode |->
     BindsOn(<<Handle("decoder")>>, "json_decoder_read_node", <<Str("k")>>),
   jsonDecoderReadString |-> Binds("json_decoder_read_string", <<>>),
   jsonDecoderReadNumber |-> Binds("json_decoder_read_number", <<>>),
   jsonDecoderReadChild |-> Binds("json_decoder_read_child", <<>>),
   jsonDecoderReadNext |-> Binds("json_decoder_read_next", <<>>),
   jsonDecoderRelease |-> Binds("json_decoder_release", <<>>)]

\* A slip: the bytes of a text, and not those its hexadecimal digits stand for.
NapiCodingPlain ==
  [codingHexBytes2str |-> Binds("coding_hex_bytes2str", <<Bin("inBytes")>>),
   codingHexStr2Bytes |-> Binds("coding_str2bytes", <<Str("str")>>)]
NapiCoding ==
  [codingHexBytes2str |-> Binds("coding_hex_bytes2str", <<Bin("inBytes")>>),
   codingHexStr2Bytes |-> Binds("coding_hex_str2bytes", <<Str("str")>>)]

NapiAes ==
  [cryptoAesEncrypt |-> Binds("crypto_aes_encrypt", NapiCipher),
   cryptoAesDecrypt |-> Binds("crypto_aes_decrypt", NapiCipher),
   cryptoAesGcmEncrypt |-> Binds("crypto_aes_gcm_encrypt", NapiGcm),
   cryptoAesGcmDecrypt |-> Binds("crypto_aes_gcm_decrypt", NapiGcm)]

NapiCrypto ==
  [cryptoRand |-> Binds("crypto_rand", <<>>),
   cryptoHashMd5 |-> Binds("crypto_hash_md5", <<Bin("inBytes")>>),
   cryptoHashSha256 |-> Binds("crypto_hash_sha256", <<Bin("inBytes")>>),
   cryptoBase64Encode |-> Binds("crypto_base64_encode", <<Bin("inBytes")>>),
   cryptoBase64Decode |-> Binds("crypto_base64_decode", <<Bin("inBytes")>>)]

NapiScripts ==
  [lLoadF |-> Binds("lua_loadF", <<Str("file")>>),
   lLoadS |-> Binds("lua_loadS", <<Str("script")>>),
   lCall |-> Binds("lua_call", <<Str("func"), Str("params")>>),
   jLoadF |-> Binds("js_loadF", <<Str("file")>>),
   jLoadS |-> Binds("js_loadS", <<Str("script"), Str("name")>>),
   jLoadB |-> Binds("js_loadB", <<Bin("inBytes")>>),
   jCall |-> Binds("js_call", <<Str("func"), Str("params")>>)]

NapiData  == Both(NapiCoding, Both(NapiAes, NapiCrypto))
NapiStore == Both(NapiSqlite, NapiKv)

Napi ==
  Both(NapiBase, Both(NapiHttp, Both(NapiScripts, Both(NapiStore, Both(NapiDevice,
    Both(NapiData, NapiJson))))))
=============================================================================
