------------------------------ MODULE JniCalls ------------------------------
(***************************************************************************)
(* The JNI functions of the Android library                                *)
(* (platforms/Android/DynXX-lib/src/main/cxx/DynXXJNI.cxx): what each      *)
(* converts with GetStringUTFChars and GetByteArrayElements, the C         *)
(* function it calls, and what it releases.  Which arguments may be null   *)
(* is what DynXX.kt declares.                                              *)
(***************************************************************************)
EXTENDS CallSteps

JniGcm == <<Bin("input"), Bin("key"), Bin("init_vector"), Optional(Bin("aad"))>>

JniBase ==
  [getVersion |-> Binds("get_version", <<>>),
   init |-> Binds("init", <<Str("root")>>),
   release |-> Binds("release", <<>>),
   logSetLevel |-> Binds("log_set_level", <<>>),
   logPrint |-> Binds("log_print", <<Str("content")>>)]

\* The file is opened when there is a path, and the path is "" without one.
JniHttp ==
  [netHttpRequest |->
     <<Get(Str("url")), Get(Untested(Str("params"))), Get(Untested(Strs("headers"))),
       Get(Untested(Strs("names"))), Get(Untested(Strs("mimes"))), Get(Untested(Strs("datas"))),
       Get(Optional(Str("filePath"))), HoldBy("cFILE", {"filePath"}),
       Invoke("net_http_request"), Box, Free("result"),
       Free("headers"), Free("names"), Free("mimes"), Free("datas"),
       Free("filePath"), Free("cFILE"), Free("params"), Free("url")>>]

\* The callback's answer is copied for the bridge, which does not free it.
JniScripts ==
  [lLoadF |-> Binds("lua_loadF", <<Str("file")>>),
   lLoadS |-> Binds("lua_loadS", <<Str("script")>>),
   lCall |-> Binds("lua_call", <<Str("func"), Optional(Str("params"))>>),
   jLoadF |-> Binds("js_loadF", <<Str("file")>>),
   jLoadS |-> Binds("js_loadS", <<Str("script"), Str("name")>>),
   jLoadB |-> Binds("js_loadB", <<Bin("bytes")>>),
   jCall |-> Binds("js_call", <<Str("func"), Optional(Str("params"))>>)]

JniMessage ==
  [js_msg_callback |-> <<Get(Untested(Str("jRes"))), Hold("res"), Free("jRes")>>]

JniSqlite ==
  [storeSQLiteOpen |-> Binds("store_sqlite_open", <<Str("id")>>),
   storeSQLiteExecute |-> BindsOn(<<Conn>>, "store_sqlite_execute", <<Str("sql")>>),
   storeSQLiteQueryDo |-> BindsOn(<<Conn>>, "store_sqlite_query_do", <<Str("sql")>>),
   storeSQLiteQueryReadRow |-> Binds("store_sqlite_query_read_row", <<>>),
   storeSQLiteQueryReadColumnText |->
     BindsOn(<<Result>>, "store_sqlite_query_read_column_text", <<Str("column")>>),
   storeSQLiteQueryReadColumnInteger |->
     BindsOn(<<Result>>, "store_sqlite_query_read_column_integer", <<Str("column")>>),
   storeSQLiteQueryReadColumnFloat |->
     BindsOn(<<Result>>, "store_sqlite_query_read_column_float", <<Str("column")>>),
   storeSQLiteQueryDrop |-> Binds("store_sqlite_query_drop", <<>>),
   storeSQLiteClose |-> Binds("store_sqlite_close", <<>>)]

JniKv ==
  [storeKVOpen |-> Binds("store_kv_open", <<Str("id")>>),
   storeKVReadString |-> BindsOn(<<Conn>>, "store_kv_read_string", <<Str("k")>>),
   storeKVWriteString |->
     BindsOn(<<Conn>>, "store_kv_write_string", <<Str("k"), Untested(Str("v"))>>),
   storeKVReadInteger |-> BindsOn(<<Conn>>, "store_kv_read_integer", <<Str("k")>>),
   storeKVWriteInteger |-> BindsOn(<<Conn>>, "store_kv_write_integer", <<Str("k")>>),
   storeKVReadFloat |-> BindsOn(<<Conn>>, "store_kv_read_float", <<Str("k")>>),
   storeKVWriteFloat |-> BindsOn(<<Conn>>, "store_kv_write_float", <<Str("k")>>),
   storeKVContains |-> BindsOn(<<Conn>>, "store_kv_contains", <<Str("k")>>),
   storeKVRemove |-> BindsOn(<<Conn>>, "store_kv_remove", <<Str("k")>>),
   storeKVClear |-> Binds("store_kv_clear", <<>>),
   storeKVClose |-> Binds("store_kv_close", <<>>)]

JniDevice ==
  [deviceType |-> Binds("device_type", <<>>),
   deviceName |-> Binds("device_name", <<>>),
   deviceManufacturer |-> Binds("device_manufacturer", <<>>),
   deviceOsVersion |-> Binds("device_os_version", <<>>),
   deviceCpuArch |-> Binds("device_cpu_arch", <<>>)]

JniCoding ==
  [codingHexBytes2Str |-> Binds("coding_hex_bytes2str", <<Bin("bytes")>>),
   codingHexStr2Bytes |-> Binds("coding_hex_str2bytes", <<Str("str")>>)]

JniAes ==
  [cryptoAesEncrypt |-> Binds("crypto_aes_encrypt", <<Bin("input"), Bin("key")>>),
   cryptoAesDecrypt |-> Binds("crypto_aes_decrypt", <<Bin("input"), Bin("key")>>),
   cryptoAesGcmEncrypt |-> Binds("crypto_aes_gcm_encrypt", JniGcm),
   cryptoAesGcmDecrypt |-> Binds("crypto_aes_gcm_decrypt", JniGcm)]

\* cryptoRandom hands its bytes to moveToJByteArray with needFree = false.
JniCrypto ==
  [cryptoRandom |-> BindsKeeping("crypto_rand"),
   cryptoHashMd5 |-> Binds("crypto_hash_md5", <<Bin("input")>>),
   cryptoHashSha256 |-> Binds("crypto_hash_sha256", <<Bin("input")>>),
   cryptoBase64Encode |-> Binds("crypto_base64_encode", <<Bin("input")>>),
   cryptoBase64Decode |-> Binds("crypto_base64_decode", <<Bin("input")>>)]

JniJson ==
  [jsonReadType |-> Binds("json_read_type", <<>>),
   jsonDecoderInit |-> Binds("json_decoder_init", <<Str("json")>>),
   jsonDecoderReadNode |->
     BindsOn(<<Handle("decoder")>>, "json_decoder_read_node", <<Str("k")>>),
   jsonDecoderReadString |-> Binds("json_decoder_read_string", <<>>),
   jsonDecoderReadNumber |-> Binds("json_decoder_read_number", <<>>),
   jsonDecoderReadChild |-> Binds("json_decoder_read_child", <<>>),
   jsonDecoderReadNext |-> Binds("json_decoder_read_next", <<>>),
   jsonDecoderRelease |-> Binds("json_decoder_release", <<>>)]

JniZip ==
  [zZipInit |-> Binds("z_zip_init", <<>>),
   zZipInput |-> Binds("z_zip_input", <<Bin("inBytes")>>),
   zZipProcessDo |-> Binds("z_zip_process_do", <<>>),
   zZipProcessFinished |-> Binds("z_zip_process_finished", <<>>),
   zZipRelease |-> Binds("z_zip_release", <<>>),
   zUnZipInit |-> Binds("z_unzip_init", <<>>),
   zUnZipInput |-> Binds("z_unzip_input", <<Bin("inBytes")>>),
   zUnZipProcessDo |-> Binds("z_unzip_process_do", <<>>),
   zUnZipProcessFinished |-> Binds("z_unzip_process_finished", <<>>),
   zUnZipRelease |-> Binds("z_unzip_release", <<>>),
   zZipBytes |-> Binds("z_bytes_zip", <<Bin("bytes")>>),
   zUnZipBytes |-> Binds("z_bytes_unzip", <<Bin("bytes")>>)]

JniData  == Both(JniCoding, Both(JniAes, Both(JniCrypto, JniZip)))
JniStore == Both(JniSqlite, JniKv)
JniVm    == Both(JniScripts, JniMessage)

Jni ==
  Both(JniBase, Both(JniHttp, Both(JniVm, Both(JniStore, Both(JniDevice,
    Both(JniData, JniJson))))))
=============================================================================
