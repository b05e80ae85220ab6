---------------------------- MODULE ScriptProofs ----------------------------
(***************************************************************************)
(* Theorems about ScriptCalls, for every choice of engines, topics and     *)
(* scripts and any number of conversions: arguments arrive, objects are    *)
(* alive while they are used, streams release, conversions round-trip.     *)
(*                                                                         *)
(* First, table by table, that the wrappers of the libraries agree with    *)
(* the functions they call about the keys and types of the JSON text; then *)
(* what follows for one call, whatever its arguments are; then the         *)
(* inductive invariants, CallInv of the calls and DataInv of the data.     *)
(***************************************************************************)
EXTENDS ScriptCalls, WellFoundedInduction, SequenceTheorems, TLAPS

-----------------------------------------------------------------------------
(* Where the layers agree                                                   *)

\* The types of arguments whose nodes a function takes for a parameter.
Takes(as) ==
  CASE as = "text"    -> {"string"}
    [] as = "number"  -> {"number", "option", "fixed"}
    [] as = "pointer" -> Handles
    [] as = "array"   -> {"array"}

\* The parameters are of the four kinds that Given knows.
Declared(f) ==
  /\ DOMAIN f.stages \subseteq Nat
  /\ \A p \in Params(f) : p.as \in {"text", "number", "pointer", "array"}

\* What the wrapper sends for a parameter is of a type the parameter takes.
TypesAgree(f, wrap) ==
  \A p \in Params(f) : p.key \in DOMAIN wrap.sends => wrap.sends[p.key] \in Takes(p.as)

\* The wrapper sends every key that the function must have.
Needed(f, wrap) == \A p \in Params(f) : p.must => p.key \in DOMAIN wrap.sends

\* Of keys that are given all or none the wrapper sends all or none.
Grouped(f, wrap) ==
  \A set \in f.together :
    /\ set \subseteq Keys(f)
    /\ set \subseteq DOMAIN wrap.sends \/ set \cap DOMAIN wrap.sends = {}

\* The function reads every key that is sent, and gets those it must have.
Complete(f, wrap) ==
  /\ Needed(f, wrap)
  /\ DOMAIN wrap.sends \subseteq Keys(f)
  /\ Grouped(f, wrap)

\* Takes, parameter by parameter.
LEMMA TakesOf ==
  /\ Takes("text") = {"string"}
  /\ Takes("number") = {"number", "option", "fixed"}
  /\ Takes("pointer") = {"sqlite", "query", "kv", "zip", "unzip"}
  /\ Takes("array") = {"array"}
  BY DEF Takes, Handles

\* Both of two tables without a common name is each of them on its names.
LEMMA BothApart ==
  ASSUME NEW f, NEW g, \A x \in DOMAIN f : x \notin DOMAIN g
  PROVE  /\ DOMAIN Both(f, g) = DOMAIN f \cup DOMAIN g
         /\ \A x \in DOMAIN f : Both(f, g)[x] = f[x]
         /\ \A x \in DOMAIN g : Both(f, g)[x] = g[x]
  BY DEF Both

\* The parameters of a function with up to four stages.
LEMMA Stages ==
  /\ \A g : Params(Fn(<<>>, g)) = {}
  /\ \A S, g : Params(Fn(<<S>>, g)) = S
  /\ \A S, T, g : Params(Fn(<<S, T>>, g)) = S \cup T
  /\ \A S, T, U, g : Params(Fn(<<S, T, U>>, g)) = S \cup T \cup U
  /\ \A S, T, U, V, g : Params(Fn(<<S, T, U, V>>, g)) = S \cup T \cup U \cup V
  <1>1. \A g : Params(Fn(<<>>, g)) = {}
    BY DEF Fn, Params
  <1>2. \A S, g : Params(Fn(<<S>>, g)) = S
    BY DEF Fn, Params
  <1>3. \A S, T, g : Params(Fn(<<S, T>>, g)) = S \cup T
    BY DEF Fn, Params
  <1>4. \A S, T, U, g : Params(Fn(<<S, T, U>>, g)) = S \cup T \cup U
    BY DEF Fn, Params
  <1>5. \A S, T, U, V, g : Params(Fn(<<S, T, U, V>>, g)) = S \cup T \cup U \cup V
    BY DEF Fn, Params
  <1> QED
    BY <1>1, <1>2, <1>3, <1>4, <1>5

\* MiscApi: the wrappers of JS name and type the keys its functions read.
LEMMA MiscWrappers ==
  \A fn \in DOMAIN MiscApi :
    /\ Declared(MiscApi[fn])
    /\ fn \in DOMAIN JsMisc
    /\ JsMisc[fn].calls = fn
    /\ TypesAgree(MiscApi[fn], JsMisc[fn])
    /\ Complete(MiscApi[fn], JsMisc[fn])
  <1>1. \A fn \in DOMAIN MiscApi : DOMAIN MiscApi[fn].stages \subseteq Nat
    BY DEF MiscApi, Fn, Need, May, Handle, Text, Number, Bytes
  <1>2. \A fn \in DOMAIN MiscApi : \A p \in Params(MiscApi[fn]) :
         p.as \in {"text", "number", "pointer", "array"}
    BY DEF MiscApi, Fn, Need, May, Handle, Text, Number, Bytes, Params
  <1>3. \A fn \in DOMAIN MiscApi : fn \in DOMAIN JsMisc /\ JsMisc[fn].calls = fn
    BY DEF MiscApi, JsMisc, Wrap
  <1>4. \A fn \in DOMAIN MiscApi : TypesAgree(MiscApi[fn], JsMisc[fn])
    BY TakesOf DEF TypesAgree, MiscApi, Fn, Need, May, Handle, Text, Number, Bytes,
           Params, JsMisc, Wrap, None
  <1>5. \A fn \in DOMAIN MiscApi : Needed(MiscApi[fn], JsMisc[fn])
    BY DEF Needed, MiscApi, Fn, Need, May, Handle, Text, Number, Bytes, Params, JsMisc, Wrap,
           None
  <1>6. \A fn \in DOMAIN MiscApi : DOMAIN JsMisc[fn].sends \subseteq {"level", "content"}
    BY DEF MiscApi, JsMisc, Wrap, None
  <1>7. \A fn \in DOMAIN MiscApi : "level" \in DOMAIN JsMisc[fn].sends =>
         Number("level") \in Params(MiscApi[fn])
    BY Stages DEF MiscApi, JsMisc, Wrap, None
  <1>8. \A fn \in DOMAIN MiscApi : "content" \in DOMAIN JsMisc[fn].sends =>
         Text("content") \in Params(MiscApi[fn])
    BY Stages DEF MiscApi, JsMisc, Wrap, None
  <1>9. \A fn \in DOMAIN MiscApi : DOMAIN JsMisc[fn].sends \subseteq Keys(MiscApi[fn])
    BY <1>6, <1>7, <1>8 DEF Keys, Handle, Text, Number, Bytes, Need, May
  <1>10. \A fn \in DOMAIN MiscApi : MiscApi[fn].together = {}
    BY DEF MiscApi, Fn
  <1> QED
    BY <1>1, <1>2, <1>3, <1>4, <1>5, <1>9, <1>10 DEF Declared, Complete, Grouped

\* SqliteApi: the wrappers of JS name and type the keys its functions read.
LEMMA SqliteWrappers ==
  \A fn \in DOMAIN SqliteApi :
    /\ Declared(SqliteApi[fn])
    /\ fn \in DOMAIN JsSqlite
    /\ JsSqlite[fn].calls = fn
    /\ TypesAgree(SqliteApi[fn], JsSqlite[fn])
    /\ Complete(SqliteApi[fn], JsSqlite[fn])
  <1>1. \A fn \in DOMAIN SqliteApi : DOMAIN SqliteApi[fn].stages \subseteq Nat
    BY DEF SqliteApi, Fn, Need, May, Handle, Text, Number, Bytes
  <1>2. \A fn \in DOMAIN SqliteApi : \A p \in Params(SqliteApi[fn]) :
         p.as \in {"text", "number", "pointer", "array"}
    BY DEF SqliteApi, Fn, Need, May, Handle, Text, Number, Bytes, Params
  <1>3. \A fn \in DOMAIN SqliteApi : fn \in DOMAIN JsSqlite /\ JsSqlite[fn].calls = fn
    BY DEF SqliteApi, JsSqlite, Wrap
  <1>4. \A fn \in DOMAIN SqliteApi : TypesAgree(SqliteApi[fn], JsSqlite[fn])
    BY TakesOf DEF TypesAgree, SqliteApi, Fn, Need, May, Handle, Text, Number, Bytes,
           Params, JsSqlite, Wrap, None, OfConn, Both
  <1>5. \A fn \in DOMAIN SqliteApi : Needed(SqliteApi[fn], JsSqlite[fn])
    BY DEF Needed, SqliteApi, Fn, Need, May, Handle, Text, Number, Bytes, Params, JsSqlite,
           Wrap, None, OfConn, Both
  <1>6. \A fn \in DOMAIN SqliteApi :
          DOMAIN JsSqlite[fn].sends \subseteq {"_id", "conn", "sql"}
    BY DEF SqliteApi, JsSqlite, Wrap, None, OfConn, Both
  <1>7. \A fn \in DOMAIN SqliteApi : "_id" \in DOMAIN JsSqlite[fn].sends =>
         Text("_id") \in Params(SqliteApi[fn])
    BY Stages DEF SqliteApi, JsSqlite, Wrap, None, OfConn, Both
  <1>8. \A fn \in DOMAIN SqliteApi : "conn" \in DOMAIN JsSqlite[fn].sends =>
         Handle("conn") \in Params(SqliteApi[fn])
    BY Stages DEF SqliteApi, JsSqlite, Wrap, None, OfConn, Both
  <1>9. \A fn \in DOMAIN SqliteApi : "sql" \in DOMAIN JsSqlite[fn].sends =>
         Text("sql") \in Params(SqliteApi[fn])
    BY Stages DEF SqliteApi, JsSqlite, Wrap, None, OfConn, Both
  <1>10. \A fn \in DOMAIN SqliteApi : DOMAIN JsSqlite[fn].sends \subseteq Keys(SqliteApi[fn])
    BY <1>6, <1>7, <1>8, <1>9 DEF Keys, Handle, Text, Number, Bytes, Need, May
  <1>11. \A fn \in DOMAIN SqliteApi : SqliteApi[fn].together = {}
    BY DEF SqliteApi, Fn
  <1> QED
    BY <1>1, <1>2, <1>3, <1>4, <1>5, <1>10, <1>11 DEF Declared, Complete, Grouped

\* QueryApi: the wrappers of JS name and type the keys its functions read.
LEMMA QueryWrappers ==
  \A fn \in DOMAIN QueryApi :
    /\ Declared(QueryApi[fn])
    /\ fn \in DOMAIN JsSqlite
    /\ JsSqlite[fn].calls = fn
    /\ TypesAgree(QueryApi[fn], JsSqlite[fn])
    /\ Complete(QueryApi[fn], JsSqlite[fn])
  <1>1. \A fn \in DOMAIN QueryApi : DOMAIN QueryApi[fn].stages \subseteq Nat
    BY DEF QueryApi, Fn, Need, May, Handle, Text, Number, Bytes, Query
  <1>2. \A fn \in DOMAIN QueryApi : \A p \in Params(QueryApi[fn]) :
         p.as \in {"text", "number", "pointer", "array"}
    BY DEF QueryApi, Fn, Need, May, Handle, Text, Number, Bytes, Params, Query
  <1>3. \A fn \in DOMAIN QueryApi : fn \in DOMAIN JsSqlite /\ JsSqlite[fn].calls = fn
    BY DEF QueryApi, JsSqlite, Wrap
  <1>4. \A fn \in DOMAIN QueryApi : TypesAgree(QueryApi[fn], JsSqlite[fn])
    BY TakesOf DEF TypesAgree, QueryApi, Query, Fn, Need, May, Handle, Text, Number,
           Bytes, Params, JsSqlite, Wrap, None, OfQuery, Column, Both
  <1>5. \A fn \in DOMAIN QueryApi : Needed(QueryApi[fn], JsSqlite[fn])
    BY DEF Needed, QueryApi, Query, Fn, Need, May, Handle, Text, Number, Bytes, Params,
           JsSqlite, Wrap, None, OfQuery, Column, Both
  <1>6. \A fn \in DOMAIN QueryApi :
          DOMAIN JsSqlite[fn].sends \subseteq {"query_result", "column"}
    BY DEF QueryApi, JsSqlite, Wrap, None, OfQuery, Column, Both
  <1>7. \A fn \in DOMAIN QueryApi : "query_result" \in DOMAIN JsSqlite[fn].sends =>
         Handle("query_result") \in Params(QueryApi[fn])
    BY Stages DEF QueryApi, Query, JsSqlite, Wrap, None, OfQuery, Column, Both
  <1>8. \A fn \in DOMAIN QueryApi : "column" \in DOMAIN JsSqlite[fn].sends =>
         Text("column") \in Params(QueryApi[fn])
    BY Stages DEF QueryApi, Query, JsSqlite, Wrap, None, OfQuery, Column, Both
  <1>9. \A fn \in DOMAIN QueryApi : DOMAIN JsSqlite[fn].sends \subseteq Keys(QueryApi[fn])
    BY <1>6, <1>7, <1>8 DEF Keys, Handle, Text, Number, Bytes, Need, May
  <1>10. \A fn \in DOMAIN QueryApi : QueryApi[fn].together = {}
    BY DEF QueryApi, Fn, Query
  <1> QED
    BY <1>1, <1>2, <1>3, <1>4, <1>5, <1>9, <1>10 DEF Declared, Complete, Grouped

\* KvValueApi: the wrappers of JS name and type the keys its functions read.
LEMMA KvValueWrappers ==
  \A fn \in DOMAIN KvValueApi :
    /\ Declared(KvValueApi[fn])
    /\ fn \in DOMAIN JsKv
    /\ JsKv[fn].calls = fn
    /\ TypesAgree(KvValueApi[fn], JsKv[fn])
    /\ Complete(KvValueApi[fn], JsKv[fn])
  <1>1. \A fn \in DOMAIN KvValueApi : DOMAIN KvValueApi[fn].stages \subseteq Nat
    BY DEF KvValueApi, Fn, Need, May, Handle, Text, Number, Bytes, Kv
  <1>2. \A fn \in DOMAIN KvValueApi : \A p \in Params(KvValueApi[fn]) :
         p.as \in {"text", "number", "pointer", "array"}
    BY DEF KvValueApi, Fn, Need, May, Handle, Text, Number, Bytes, Params, Kv
  <1>3. \A fn \in DOMAIN KvValueApi : fn \in DOMAIN JsKv /\ JsKv[fn].calls = fn
    BY DEF KvValueApi, JsKv, Wrap
  <1>4. \A fn \in DOMAIN KvValueApi : TypesAgree(KvValueApi[fn], JsKv[fn])
    <2>1. \A fn \in DOMAIN KvValueApi : \A p \in Params(KvValueApi[fn]) :
            \/ p \in {Text("_id"), Handle("conn"), Text("k")}
            \/ p = May("v", IF fn = "store_kv_write_string" THEN "text" ELSE "number")
      BY DEF KvValueApi, Kv, Fn, Need, May, Handle, Text, Params
    <2>2. \A fn \in DOMAIN KvValueApi :
            \A key \in {"_id", "k"} :
              key \in DOMAIN JsKv[fn].sends => JsKv[fn].sends[key] = "string"
      BY DEF KvValueApi, JsKv, Wrap, None, OfKey, OfConn, Both
    <2>3. \A fn \in DOMAIN KvValueApi :
            "conn" \in DOMAIN JsKv[fn].sends => JsKv[fn].sends["conn"] = "kv"
      BY DEF KvValueApi, JsKv, Wrap, None, OfKey, OfConn, Both
    <2>4. \A fn \in DOMAIN KvValueApi : "v" \in DOMAIN JsKv[fn].sends =>
            JsKv[fn].sends["v"] = IF fn = "store_kv_write_string" THEN "string" ELSE "number"
      BY DEF KvValueApi, JsKv, Wrap, None, OfKey, OfConn, Both
    <2> QED
      BY <2>1, <2>2, <2>3, <2>4, TakesOf DEF TypesAgree, Need, May, Handle, Text
  <1>5. \A fn \in DOMAIN KvValueApi : Needed(KvValueApi[fn], JsKv[fn])
    BY DEF Needed, KvValueApi, Kv, Fn, Need, May, Handle, Text, Number, Bytes, Params, JsKv,
           Wrap, None, OfKey, OfConn, Both
  <1>6. \A fn \in DOMAIN KvValueApi :
          DOMAIN JsKv[fn].sends \subseteq {"_id", "conn", "k", "v"}
    BY DEF KvValueApi, JsKv, Wrap, None, OfKey, OfConn, Both
  <1>7. \A fn \in DOMAIN KvValueApi : "_id" \in DOMAIN JsKv[fn].sends =>
         Text("_id") \in Params(KvValueApi[fn])
    BY Stages DEF KvValueApi, Kv, JsKv, Wrap, None, OfKey, OfConn, Both
  <1>8. \A fn \in DOMAIN KvValueApi : "conn" \in DOMAIN JsKv[fn].sends =>
         Handle("conn") \in Params(KvValueApi[fn])
    BY Stages DEF KvValueApi, Kv, JsKv, Wrap, None, OfKey, OfConn, Both
  <1>9. \A fn \in DOMAIN KvValueApi : "k" \in DOMAIN JsKv[fn].sends =>
         Text("k") \in Params(KvValueApi[fn])
    BY Stages DEF KvValueApi, Kv, JsKv, Wrap, None, OfKey, OfConn, Both
  <1>10. \A fn \in DOMAIN KvValueApi : "v" \in DOMAIN JsKv[fn].sends =>
         May("v", "text") \in Params(KvValueApi[fn]) \/ May("v", "number") \in Params(KvValueApi[fn])
    BY Stages DEF KvValueApi, Kv, JsKv, Wrap, None, OfKey, OfConn, Both
  <1>11. \A fn \in DOMAIN KvValueApi : DOMAIN JsKv[fn].sends \subseteq Keys(KvValueApi[fn])
    BY <1>6, <1>7, <1>8, <1>9, <1>10 DEF Keys, Handle, Text, Number, Bytes, Need, May
  <1>12. \A fn \in DOMAIN KvValueApi : KvValueApi[fn].together = {}
    BY DEF KvValueApi, Fn, Kv
  <1> QED
    BY <1>1, <1>2, <1>3, <1>4, <1>5, <1>11, <1>12 DEF Declared, Complete, Grouped

\* KvKeyApi: the wrappers of JS name and type the keys its functions read.
LEMMA KvKeyWrappers ==
  \A fn \in DOMAIN KvKeyApi :
    /\ Declared(KvKeyApi[fn])
    /\ fn \in DOMAIN JsKv
    /\ JsKv[fn].calls = fn
    /\ TypesAgree(KvKeyApi[fn], JsKv[fn])
    /\ Complete(KvKeyApi[fn], JsKv[fn])
  <1>1. \A fn \in DOMAIN KvKeyApi : DOMAIN KvKeyApi[fn].stages \subseteq Nat
    BY DEF KvKeyApi, Fn, Need, May, Handle, Text, Number, Bytes, Kv
  <1>2. \A fn \in DOMAIN KvKeyApi : \A p \in Params(KvKeyApi[fn]) :
         p.as \in {"text", "number", "pointer", "array"}
    BY DEF KvKeyApi, Fn, Need, May, Handle, Text, Number, Bytes, Params, Kv
  <1>3. \A fn \in DOMAIN KvKeyApi : fn \in DOMAIN JsKv /\ JsKv[fn].calls = fn
    BY DEF KvKeyApi, JsKv, Wrap
  <1>4. \A fn \in DOMAIN KvKeyApi : TypesAgree(KvKeyApi[fn], JsKv[fn])
    <2>1. \A fn \in DOMAIN KvKeyApi : \A p \in Params(KvKeyApi[fn]) :
            p \in {Handle("conn"), Text("k")}
      BY DEF KvKeyApi, Kv, Fn, Need, May, Handle, Text, Params
    <2>2. \A fn \in DOMAIN KvKeyApi :
            /\ "k" \in DOMAIN JsKv[fn].sends => JsKv[fn].sends["k"] = "string"
            /\ "conn" \in DOMAIN JsKv[fn].sends => JsKv[fn].sends["conn"] = "kv"
      BY DEF KvKeyApi, JsKv, Wrap, None, OfKey, OfConn, Both
    <2> QED
      BY <2>1, <2>2, TakesOf DEF TypesAgree, Need, Handle, Text
  <1>5. \A fn \in DOMAIN KvKeyApi : Needed(KvKeyApi[fn], JsKv[fn])
    BY DEF Needed, KvKeyApi, Kv, Fn, Need, May, Handle, Text, Number, Bytes, Params, JsKv,
           Wrap, None, OfKey, OfConn, Both
  <1>6. \A fn \in DOMAIN KvKeyApi : DOMAIN JsKv[fn].sends \subseteq {"conn", "k"}
    BY DEF KvKeyApi, JsKv, Wrap, None, OfKey, OfConn, Both
  <1>7. \A fn \in DOMAIN KvKeyApi : "conn" \in DOMAIN JsKv[fn].sends =>
         Handle("conn") \in Params(KvKeyApi[fn])
    BY Stages DEF KvKeyApi, Kv, JsKv, Wrap, None, OfKey, OfConn, Both
  <1>8. \A fn \in DOMAIN KvKeyApi : "k" \in DOMAIN JsKv[fn].sends =>
         Text("k") \in Params(KvKeyApi[fn])
    BY Stages DEF KvKeyApi, Kv, JsKv, Wrap, None, OfKey, OfConn, Both
  <1>9. \A fn \in DOMAIN KvKeyApi : DOMAIN JsKv[fn].sends \subseteq Keys(KvKeyApi[fn])
    BY <1>6, <1>7, <1>8 DEF Keys, Handle, Text, Number, Bytes, Need, May
  <1>10. \A fn \in DOMAIN KvKeyApi : KvKeyApi[fn].together = {}
    BY DEF KvKeyApi, Fn, Kv
  <1> QED
    BY <1>1, <1>2, <1>3, <1>4, <1>5, <1>9, <1>10 DEF Declared, Complete, Grouped

\* CodingApi: the wrappers of JS name and type the keys its functions read.
LEMMA CodingWrappers ==
  \A fn \in DOMAIN CodingApi :
    /\ Declared(CodingApi[fn])
    /\ fn \in DOMAIN JsCoding
    /\ JsCoding[fn].calls = fn
    /\ TypesAgree(CodingApi[fn], JsCoding[fn])
    /\ Complete(CodingApi[fn], JsCoding[fn])
  <1>1. \A fn \in DOMAIN CodingApi : DOMAIN CodingApi[fn].stages \subseteq Nat
    BY DEF CodingApi, Fn, Need, May, Handle, Text, Number, Bytes
  <1>2. \A fn \in DOMAIN CodingApi : \A p \in Params(CodingApi[fn]) :
         p.as \in {"text", "number", "pointer", "array"}
    BY DEF CodingApi, Fn, Need, May, Handle, Text, Number, Bytes, Params
  <1>3. \A fn \in DOMAIN CodingApi : fn \in DOMAIN JsCoding /\ JsCoding[fn].calls = fn
    BY DEF CodingApi, JsCoding, Wrap
  <1>4. \A fn \in DOMAIN CodingApi : TypesAgree(CodingApi[fn], JsCoding[fn])
    BY TakesOf DEF TypesAgree, CodingApi, Fn, Need, May, Handle, Text, Number, Bytes,
           Params, JsCoding, Wrap, None, OfStr, OfBytes
  <1>5. \A fn \in DOMAIN CodingApi : Needed(CodingApi[fn], JsCoding[fn])
    BY DEF Needed, CodingApi, Fn, Need, May, Handle, Text, Number, Bytes, Params, JsCoding,
           Wrap, None, OfStr, OfBytes
  <1>6. \A fn \in DOMAIN CodingApi : DOMAIN JsCoding[fn].sends \subseteq {"str", "inBytes"}
    BY DEF CodingApi, JsCoding, Wrap, None, OfStr, OfBytes
  <1>7. \A fn \in DOMAIN CodingApi : "str" \in DOMAIN JsCoding[fn].sends =>
         Text("str") \in Params(CodingApi[fn])
    BY Stages DEF CodingApi, JsCoding, Wrap, None, OfStr, OfBytes
  <1>8. \A fn \in DOMAIN CodingApi : "inBytes" \in DOMAIN JsCoding[fn].sends =>
         Bytes("inBytes") \in Params(CodingApi[fn])
    BY Stages DEF CodingApi, JsCoding, Wrap, None, OfStr, OfBytes
  <1>9. \A fn \in DOMAIN CodingApi : DOMAIN JsCoding[fn].sends \subseteq Keys(CodingApi[fn])
    BY <1>6, <1>7, <1>8 DEF Keys, Handle, Text, Number, Bytes, Need, May
  <1>10. \A fn \in DOMAIN CodingApi : CodingApi[fn].together = {}
    BY DEF CodingApi, Fn
  <1> QED
    BY <1>1, <1>2, <1>3, <1>4, <1>5, <1>9, <1>10 DEF Declared, Complete, Grouped

\* AesApi: the wrappers of JS name and type the keys its functions read.
LEMMA AesWrappers ==
  \A fn \in DOMAIN AesApi :
    /\ Declared(AesApi[fn])
    /\ fn \in DOMAIN JsCrypto
    /\ JsCrypto[fn].calls = fn
    /\ TypesAgree(AesApi[fn], JsCrypto[fn])
    /\ Complete(AesApi[fn], JsCrypto[fn])
  <1>1. \A fn \in DOMAIN AesApi : DOMAIN AesApi[fn].stages \subseteq Nat
    BY DEF AesApi, Fn, Need, May, Handle, Text, Number, Bytes, Keyed, Gcm
  <1>2. \A fn \in DOMAIN AesApi : \A p \in Params(AesApi[fn]) :
         p.as \in {"text", "number", "pointer", "array"}
    BY DEF AesApi, Fn, Need, May, Handle, Text, Number, Bytes, Params, Keyed, Gcm
  <1>3. \A fn \in DOMAIN AesApi : fn \in DOMAIN JsCrypto /\ JsCrypto[fn].calls = fn
    BY DEF AesApi, JsCrypto, Wrap
  <1>4. \A fn \in DOMAIN AesApi : TypesAgree(AesApi[fn], JsCrypto[fn])
    <2>1. \A fn \in DOMAIN AesApi : \A p \in Params(AesApi[fn]) :
            \/ p \in {Bytes("inBytes"), Bytes("keyBytes"), Bytes("initVectorBytes")}
            \/ p \in {Number("len"), May("aadBytes", "array"), May("tagBits", "number")}
      BY Stages DEF AesApi, Keyed, Gcm
    <2>2. \A fn \in DOMAIN AesApi :
            \A key \in {"inBytes", "keyBytes", "initVectorBytes", "aadBytes"} :
              key \in DOMAIN JsCrypto[fn].sends => JsCrypto[fn].sends[key] = "array"
      BY SMTT(60) DEF AesApi, JsCrypto, Wrap, OfKeyBytes, OfBytes, OfGcm, Both
    <2>3. \A fn \in DOMAIN AesApi : \A key \in {"len", "tagBits"} :
            key \in DOMAIN JsCrypto[fn].sends => JsCrypto[fn].sends[key] = "number"
      BY SMTT(60) DEF AesApi, JsCrypto, Wrap, OfKeyBytes, OfBytes, OfGcm, Both
    <2> QED
      BY <2>1, <2>2, <2>3, TakesOf DEF TypesAgree, Need, May, Number, Bytes
  <1>5. \A fn \in DOMAIN AesApi : Needed(AesApi[fn], JsCrypto[fn])
    BY SMTT(60)
       DEF Needed, AesApi, Keyed, Gcm, Fn, Need, May, Handle, Text, Number, Bytes, Params,
           JsCrypto, Wrap, None, OfKeyBytes, OfBytes, OfGcm, Both
  <1>6. \A fn \in DOMAIN AesApi :
          DOMAIN JsCrypto[fn].sends \subseteq {"len", "inBytes", "keyBytes",
                                               "initVectorBytes", "aadBytes",
                                               "tagBits"}
    BY DEF AesApi, JsCrypto, Wrap, None, OfKeyBytes, OfBytes, OfGcm, Both
  <1>7. \A fn \in DOMAIN AesApi : "len" \in DOMAIN JsCrypto[fn].sends =>
         Number("len") \in Params(AesApi[fn])
    BY Stages, SMTT(60)
       DEF AesApi, Keyed, Gcm, JsCrypto, Wrap, None, OfKeyBytes, OfBytes, OfGcm, Both
  <1>8. \A fn \in DOMAIN AesApi : "inBytes" \in DOMAIN JsCrypto[fn].sends =>
         Bytes("inBytes") \in Params(AesApi[fn])
    BY Stages DEF AesApi, Keyed, Gcm, JsCrypto, Wrap, None, OfKeyBytes, OfBytes, OfGcm, Both
  <1>9. \A fn \in DOMAIN AesApi : "keyBytes" \in DOMAIN JsCrypto[fn].sends =>
         Bytes("keyBytes") \in Params(AesApi[fn])
    BY Stages DEF AesApi, Keyed, Gcm, JsCrypto, Wrap, None, OfKeyBytes, OfBytes, OfGcm, Both
  <1>10. \A fn \in DOMAIN AesApi : "initVectorBytes" \in DOMAIN JsCrypto[fn].sends =>
         Bytes("initVectorBytes") \in Params(AesApi[fn])
    BY Stages DEF AesApi, Keyed, Gcm, JsCrypto, Wrap, None, OfKeyBytes, OfBytes, OfGcm, Both
  <1>11. \A fn \in DOMAIN AesApi : "aadBytes" \in DOMAIN JsCrypto[fn].sends =>
         May("aadBytes", "array") \in Params(AesApi[fn])
    BY Stages DEF AesApi, Keyed, Gcm, JsCrypto, Wrap, None, OfKeyBytes, OfBytes, OfGcm, Both
  <1>12. \A fn \in DOMAIN AesApi : "tagBits" \in DOMAIN JsCrypto[fn].sends =>
         May("tagBits", "number") \in Params(AesApi[fn])
    BY Stages DEF AesApi, Keyed, Gcm, JsCrypto, Wrap, None, OfKeyBytes, OfBytes, OfGcm, Both
  <1>13. \A fn \in DOMAIN AesApi : DOMAIN JsCrypto[fn].sends \subseteq Keys(AesApi[fn])
    BY <1>6, <1>7, <1>8, <1>9, <1>10, <1>11, <1>12
       DEF Keys, Handle, Text, Number, Bytes, Need, May
  <1>14. \A fn \in DOMAIN AesApi : AesApi[fn].together = {}
    BY DEF AesApi, Fn, Keyed, Gcm
  <1> QED
    BY <1>1, <1>2, <1>3, <1>4, <1>5, <1>13, <1>14 DEF Declared, Complete, Grouped

\* RsaApi: the wrappers of JS name and type the keys its functions read.
LEMMA RsaWrappers ==
  \A fn \in DOMAIN RsaApi :
    /\ Declared(RsaApi[fn])
    /\ fn \in DOMAIN JsCrypto
    /\ JsCrypto[fn].calls = fn
    /\ fn # "crypto_rsa_gen_key" =>
         TypesAgree(RsaApi[fn], JsCrypto[fn])
  <1>1. \A fn \in DOMAIN RsaApi : DOMAIN RsaApi[fn].stages \subseteq Nat
    BY DEF RsaApi, Fn, Need, May, Handle, Text, Number, Bytes, Padded
  <1>2. \A fn \in DOMAIN RsaApi : \A p \in Params(RsaApi[fn]) :
         p.as \in {"text", "number", "pointer", "array"}
    BY DEF RsaApi, Fn, Need, May, Handle, Text, Number, Bytes, Params, Padded
  <1>3. \A fn \in DOMAIN RsaApi : fn \in DOMAIN JsCrypto /\ JsCrypto[fn].calls = fn
    BY DEF RsaApi, JsCrypto, Wrap
  <1>4. \A fn \in DOMAIN RsaApi \ {"crypto_rsa_gen_key"} : TypesAgree(RsaApi[fn], JsCrypto[fn])
    BY TakesOf, SMTT(60) DEF TypesAgree, RsaApi, Padded, Fn, Need, May, Handle, Text, Number,
           Bytes, Params, JsCrypto, Wrap, None, OfKeyBytes, OfBytes, Both
  <1> QED
    BY <1>1, <1>2, <1>3, <1>4 DEF Declared

\* HashApi: the wrappers of JS name and type the keys its functions read.
LEMMA HashWrappers ==
  \A fn \in DOMAIN HashApi :
    /\ Declared(HashApi[fn])
    /\ fn \in DOMAIN JsCrypto
    /\ JsCrypto[fn].calls = fn
    /\ TypesAgree(HashApi[fn], JsCrypto[fn])
    /\ Complete(HashApi[fn], JsCrypto[fn])
  <1>1. \A fn \in DOMAIN HashApi : DOMAIN HashApi[fn].stages \subseteq Nat
    BY DEF HashApi, Fn, Need, May, Handle, Text, Number, Bytes
  <1>2. \A fn \in DOMAIN HashApi : \A p \in Params(HashApi[fn]) :
         p.as \in {"text", "number", "pointer", "array"}
    BY DEF HashApi, Fn, Need, May, Handle, Text, Number, Bytes, Params
  <1>3. \A fn \in DOMAIN HashApi : fn \in DOMAIN JsCrypto /\ JsCrypto[fn].calls = fn
    BY DEF HashApi, JsCrypto, Wrap
  <1>4. \A fn \in DOMAIN HashApi : TypesAgree(HashApi[fn], JsCrypto[fn])
    BY TakesOf DEF TypesAgree, HashApi, Fn, Need, May, Handle, Text, Number, Bytes,
           Params, JsCrypto, Wrap, None, OfBytes, OfBase64, Both
  <1>5. \A fn \in DOMAIN HashApi : Needed(HashApi[fn], JsCrypto[fn])
    BY DEF Needed, HashApi, Fn, Need, May, Handle, Text, Number, Bytes, Params, JsCrypto,
           Wrap, None, OfBytes, OfBase64, Both
  <1>6. \A fn \in DOMAIN HashApi :
          DOMAIN JsCrypto[fn].sends \subseteq {"inBytes", "noNewLines"}
    BY DEF HashApi, JsCrypto, Wrap, None, OfBytes, OfBase64, Both
  <1>7. \A fn \in DOMAIN HashApi : "inBytes" \in DOMAIN JsCrypto[fn].sends =>
         Bytes("inBytes") \in Params(HashApi[fn])
    BY Stages DEF HashApi, JsCrypto, Wrap, None, OfBytes, OfBase64, Both
  <1>8. \A fn \in DOMAIN HashApi : "noNewLines" \in DOMAIN JsCrypto[fn].sends =>
         May("noNewLines", "number") \in Params(HashApi[fn])
    BY Stages DEF HashApi, JsCrypto, Wrap, None, OfBytes, OfBase64, Both
  <1>9. \A fn \in DOMAIN HashApi : DOMAIN JsCrypto[fn].sends \subseteq Keys(HashApi[fn])
    BY <1>6, <1>7, <1>8 DEF Keys, Handle, Text, Number, Bytes, Need, May
  <1>10. \A fn \in DOMAIN HashApi : HashApi[fn].together = {}
    BY DEF HashApi, Fn
  <1> QED
    BY <1>1, <1>2, <1>3, <1>4, <1>5, <1>9, <1>10 DEF Declared, Complete, Grouped

\* ZipApi: the wrappers of JS name and type the keys its functions read.
LEMMA ZipWrappers ==
  \A fn \in DOMAIN ZipApi :
    /\ Declared(ZipApi[fn])
    /\ fn \in DOMAIN JsZip
    /\ JsZip[fn].calls = fn
    /\ TypesAgree(ZipApi[fn], JsZip[fn])
    /\ Complete(ZipApi[fn], JsZip[fn])
  <1>1. \A fn \in DOMAIN ZipApi : DOMAIN ZipApi[fn].stages \subseteq Nat
    BY DEF ZipApi, Fn, Need, May, Handle, Text, Number, Bytes, ZInput
  <1>2. \A fn \in DOMAIN ZipApi : \A p \in Params(ZipApi[fn]) :
         p.as \in {"text", "number", "pointer", "array"}
    BY DEF ZipApi, Fn, Need, May, Handle, Text, Number, Bytes, Params, ZInput
  <1>3. \A fn \in DOMAIN ZipApi : fn \in DOMAIN JsZip /\ JsZip[fn].calls = fn
    BY DEF ZipApi, JsZip, Wrap
  <1>4. \A fn \in DOMAIN ZipApi : TypesAgree(ZipApi[fn], JsZip[fn])
    <2>1. \A fn \in DOMAIN ZipApi : \A p \in Params(ZipApi[fn]) :
            \/ p \in {Handle("zip"), Bytes("inBytes"), Number("inFinish")}
            \/ p \in {Number("mode"), Number("bufferSize"), Number("format")}
      BY Stages DEF ZipApi, ZInput
    <2>2. \A fn \in DOMAIN ZipApi :
            /\ "zip" \in DOMAIN JsZip[fn].sends => JsZip[fn].sends["zip"] = "zip"
            /\ "inBytes" \in DOMAIN JsZip[fn].sends => JsZip[fn].sends["inBytes"] = "array"
            /\ "inFinish" \in DOMAIN JsZip[fn].sends => JsZip[fn].sends["inFinish"] = "fixed"
      BY DEF ZipApi, JsZip, Wrap, Sized, OfInput, OfBytes, Both
    <2>3. \A fn \in DOMAIN ZipApi : \A key \in {"mode", "bufferSize", "format"} :
            key \in DOMAIN JsZip[fn].sends => JsZip[fn].sends[key] = "option"
      BY DEF ZipApi, JsZip, Wrap, Sized, OfInput, OfBytes, Both
    <2> QED
      BY <2>1, <2>2, <2>3, TakesOf DEF TypesAgree, Need, May, Handle, Number, Bytes
  <1>5. \A fn \in DOMAIN ZipApi : Needed(ZipApi[fn], JsZip[fn])
    BY DEF Needed, ZipApi, ZInput, Fn, Need, May, Handle, Text, Number, Bytes, Params, JsZip,
           Wrap, None, Sized, OfInput, OfBytes, Both
  <1>6. \A fn \in DOMAIN ZipApi :
          DOMAIN JsZip[fn].sends \subseteq {"zip", "inBytes", "inFinish", "mode",
                                            "bufferSize", "format"}
    BY DEF ZipApi, JsZip, Wrap, None, Sized, OfInput, OfBytes, Both
  <1>7. \A fn \in DOMAIN ZipApi : "zip" \in DOMAIN JsZip[fn].sends =>
         Handle("zip") \in Params(ZipApi[fn])
    BY Stages DEF ZipApi, ZInput, JsZip, Wrap, None, Sized, OfInput, OfBytes, Both
  <1>8. \A fn \in DOMAIN ZipApi : "inBytes" \in DOMAIN JsZip[fn].sends =>
         Bytes("inBytes") \in Params(ZipApi[fn])
    BY Stages DEF ZipApi, ZInput, JsZip, Wrap, None, Sized, OfInput, OfBytes, Both
  <1>9. \A fn \in DOMAIN ZipApi : "inFinish" \in DOMAIN JsZip[fn].sends =>
         Number("inFinish") \in Params(ZipApi[fn])
    BY Stages DEF ZipApi, ZInput, JsZip, Wrap, None, Sized, OfInput, OfBytes, Both
  <1>10. \A fn \in DOMAIN ZipApi : "mode" \in DOMAIN JsZip[fn].sends =>
         Number("mode") \in Params(ZipApi[fn])
    BY Stages DEF ZipApi, ZInput, JsZip, Wrap, None, Sized, OfInput, OfBytes, Both
  <1>11. \A fn \in DOMAIN ZipApi : "bufferSize" \in DOMAIN JsZip[fn].sends =>
         Number("bufferSize") \in Params(ZipApi[fn])
    BY Stages DEF ZipApi, ZInput, JsZip, Wrap, None, Sized, OfInput, OfBytes, Both
  <1>12. \A fn \in DOMAIN ZipApi : "format" \in DOMAIN JsZip[fn].sends =>
         Number("format") \in Params(ZipApi[fn])
    BY Stages DEF ZipApi, ZInput, JsZip, Wrap, None, Sized, OfInput, OfBytes, Both
  <1>13. \A fn \in DOMAIN ZipApi : DOMAIN JsZip[fn].sends \subseteq Keys(ZipApi[fn])
    BY <1>6, <1>7, <1>8, <1>9, <1>10, <1>11, <1>12
       DEF Keys, Handle, Text, Number, Bytes, Need, May
  <1>14. \A fn \in DOMAIN ZipApi : ZipApi[fn].together = {}
    BY DEF ZipApi, Fn, ZInput
  <1> QED
    BY <1>1, <1>2, <1>3, <1>4, <1>5, <1>13, <1>14 DEF Declared, Complete, Grouped

\* UnzipApi: the wrappers of JS name and type the keys its functions read.
LEMMA UnzipWrappers ==
  \A fn \in DOMAIN UnzipApi :
    /\ Declared(UnzipApi[fn])
    /\ fn \in DOMAIN JsZip
    /\ JsZip[fn].calls = fn
    /\ TypesAgree(UnzipApi[fn], JsZip[fn])
    /\ Complete(UnzipApi[fn], JsZip[fn])
  <1>1. \A fn \in DOMAIN UnzipApi : DOMAIN UnzipApi[fn].stages \subseteq Nat
    BY DEF UnzipApi, Fn, Need, May, Handle, Text, Number, Bytes, ZInput
  <1>2. \A fn \in DOMAIN UnzipApi : \A p \in Params(UnzipApi[fn]) :
         p.as \in {"text", "number", "pointer", "array"}
    BY DEF UnzipApi, Fn, Need, May, Handle, Text, Number, Bytes, Params, ZInput
  <1>3. \A fn \in DOMAIN UnzipApi : fn \in DOMAIN JsZip /\ JsZip[fn].calls = fn
    BY DEF UnzipApi, JsZip, Wrap
  <1>4. \A fn \in DOMAIN UnzipApi : TypesAgree(UnzipApi[fn], JsZip[fn])
    <2>1. \A fn \in DOMAIN UnzipApi : \A p \in Params(UnzipApi[fn]) :
            \/ p \in {Handle("unzip"), Bytes("inBytes"), Number("inFinish")}
            \/ p \in {Number("bufferSize"), Number("format")}
      BY Stages DEF UnzipApi, ZInput
    <2>2. \A fn \in DOMAIN UnzipApi :
            /\ "unzip" \in DOMAIN JsZip[fn].sends => JsZip[fn].sends["unzip"] = "unzip"
            /\ "inBytes" \in DOMAIN JsZip[fn].sends => JsZip[fn].sends["inBytes"] = "array"
            /\ "inFinish" \in DOMAIN JsZip[fn].sends => JsZip[fn].sends["inFinish"] = "fixed"
      BY DEF UnzipApi, JsZip, Wrap, Sized, OfInput, OfBytes, Both
    <2>3. \A fn \in DOMAIN UnzipApi : \A key \in {"bufferSize", "format"} :
            key \in DOMAIN JsZip[fn].sends => JsZip[fn].sends[key] = "option"
      BY DEF UnzipApi, JsZip, Wrap, Sized, OfInput, OfBytes, Both
    <2> QED
      BY <2>1, <2>2, <2>3, TakesOf DEF TypesAgree, Need, May, Handle, Number, Bytes
  <1>5. \A fn \in DOMAIN UnzipApi : Needed(UnzipApi[fn], JsZip[fn])
    BY SMTT(60) DEF Needed, UnzipApi, ZInput, Fn, Need, May, Handle, Text, Number, Bytes, Params,
           JsZip, Wrap, None, Sized, OfInput, OfBytes, Both
  <1>6. \A fn \in DOMAIN UnzipApi :
          DOMAIN JsZip[fn].sends \subseteq {"unzip", "inBytes", "inFinish",
                                            "bufferSize", "format"}
    BY DEF UnzipApi, JsZip, Wrap, None, Sized, OfInput, OfBytes, Both
  <1>7. \A fn \in DOMAIN UnzipApi : "unzip" \in DOMAIN JsZip[fn].sends =>
         Handle("unzip") \in Params(UnzipApi[fn])
    BY Stages DEF UnzipApi, ZInput, JsZip, Wrap, None, Sized, OfInput, OfBytes, Both
  <1>8. \A fn \in DOMAIN UnzipApi : "inBytes" \in DOMAIN JsZip[fn].sends =>
         Bytes("inBytes") \in Params(UnzipApi[fn])
    BY Stages DEF UnzipApi, ZInput, JsZip, Wrap, None, Sized, OfInput, OfBytes, Both
  <1>9. \A fn \in DOMAIN UnzipApi : "inFinish" \in DOMAIN JsZip[fn].sends =>
         Number("inFinish") \in Params(UnzipApi[fn])
    BY Stages DEF UnzipApi, ZInput, JsZip, Wrap, None, Sized, OfInput, OfBytes, Both
  <1>10. \A fn \in DOMAIN UnzipApi : "bufferSize" \in DOMAIN JsZip[fn].sends =>
         Number("bufferSize") \in Params(UnzipApi[fn])
    BY Stages DEF UnzipApi, ZInput, JsZip, Wrap, None, Sized, OfInput, OfBytes, Both
  <1>11. \A fn \in DOMAIN UnzipApi : "format" \in DOMAIN JsZip[fn].sends =>
         Number("format") \in Params(UnzipApi[fn])
    BY Stages DEF UnzipApi, ZInput, JsZip, Wrap, None, Sized, OfInput, OfBytes, Both
  <1>12. \A fn \in DOMAIN UnzipApi : DOMAIN JsZip[fn].sends \subseteq Keys(UnzipApi[fn])
    BY <1>6, <1>7, <1>8, <1>9, <1>10, <1>11 DEF Keys, Handle, Text, Number, Bytes, Need, May
  <1>13. \A fn \in DOMAIN UnzipApi : UnzipApi[fn].together = {}
    BY DEF UnzipApi, Fn, ZInput
  <1> QED
    BY <1>1, <1>2, <1>3, <1>4, <1>5, <1>12, <1>13 DEF Declared, Complete, Grouped

\* ZBytesApi: the wrappers of JS name and type the keys its functions read.
LEMMA ZBytesWrappers ==
  \A fn \in DOMAIN ZBytesApi :
    /\ Declared(ZBytesApi[fn])
    /\ fn \in DOMAIN JsZBytes
    /\ JsZBytes[fn].calls = fn
    /\ TypesAgree(ZBytesApi[fn], JsZBytes[fn])
    /\ Complete(ZBytesApi[fn], JsZBytes[fn])
  <1>1. \A fn \in DOMAIN ZBytesApi : DOMAIN ZBytesApi[fn].stages \subseteq Nat
    BY DEF ZBytesApi, Fn, Need, May, Handle, Text, Number, Bytes
  <1>2. \A fn \in DOMAIN ZBytesApi : \A p \in Params(ZBytesApi[fn]) :
         p.as \in {"text", "number", "pointer", "array"}
    BY DEF ZBytesApi, Fn, Need, May, Handle, Text, Number, Bytes, Params
  <1>3. \A fn \in DOMAIN ZBytesApi : fn \in DOMAIN JsZBytes /\ JsZBytes[fn].calls = fn
    BY DEF ZBytesApi, JsZBytes, Wrap
  <1>4. \A fn \in DOMAIN ZBytesApi : TypesAgree(ZBytesApi[fn], JsZBytes[fn])
    BY TakesOf DEF TypesAgree, ZBytesApi, Fn, Need, May, Handle, Text, Number, Bytes,
           Params, JsZBytes, Wrap, None, OfBytes, Sized, Both
  <1>5. \A fn \in DOMAIN ZBytesApi : Needed(ZBytesApi[fn], JsZBytes[fn])
    BY DEF Needed, ZBytesApi, Fn, Need, May, Handle, Text, Number, Bytes, Params, JsZBytes,
           Wrap, None, OfBytes, Sized, Both
  <1>6. \A fn \in DOMAIN ZBytesApi :
          DOMAIN JsZBytes[fn].sends \subseteq {"inBytes", "mode", "bufferSize", "format"}
    BY DEF ZBytesApi, JsZBytes, Wrap, None, OfBytes, Sized, Both
  <1>7. \A fn \in DOMAIN ZBytesApi : "inBytes" \in DOMAIN JsZBytes[fn].sends =>
         Bytes("inBytes") \in Params(ZBytesApi[fn])
    BY Stages DEF ZBytesApi, JsZBytes, Wrap, None, OfBytes, Sized, Both
  <1>8. \A fn \in DOMAIN ZBytesApi : "mode" \in DOMAIN JsZBytes[fn].sends =>
         Number("mode") \in Params(ZBytesApi[fn])
    BY Stages DEF ZBytesApi, JsZBytes, Wrap, None, OfBytes, Sized, Both
  <1>9. \A fn \in DOMAIN ZBytesApi : "bufferSize" \in DOMAIN JsZBytes[fn].sends =>
         Number("bufferSize") \in Params(ZBytesApi[fn])
    BY Stages DEF ZBytesApi, JsZBytes, Wrap, None, OfBytes, Sized, Both
  <1>10. \A fn \in DOMAIN ZBytesApi : "format" \in DOMAIN JsZBytes[fn].sends =>
         Number("format") \in Params(ZBytesApi[fn])
    BY Stages DEF ZBytesApi, JsZBytes, Wrap, None, OfBytes, Sized, Both
  <1>11. \A fn \in DOMAIN ZBytesApi : DOMAIN JsZBytes[fn].sends \subseteq Keys(ZBytesApi[fn])
    BY <1>6, <1>7, <1>8, <1>9, <1>10 DEF Keys, Handle, Text, Number, Bytes, Need, May
  <1>12. \A fn \in DOMAIN ZBytesApi : ZBytesApi[fn].together = {}
    BY DEF ZBytesApi, Fn
  <1> QED
    BY <1>1, <1>2, <1>3, <1>4, <1>5, <1>11, <1>12 DEF Declared, Complete, Grouped


\* Together changes nothing but the keys that are given together.
LEMMA TogetherFacts ==
  \A sets, S, g :
    /\ DOMAIN Together(sets, Fn(<<S>>, g)).stages \subseteq Nat
    /\ Params(Together(sets, Fn(<<S>>, g))) = S
    /\ Together(sets, Fn(<<S>>, g)).together = sets
  BY DEF Together, Fn, Params

\* The parameters of net_http_request.
RequestParams ==
  {Text("url"), Number("method"), May("params", "text"),
   May("rawBodyBytes", "array"), May("header_v", "array"),
   May("cFILE", "pointer"), May("fileSize", "number"), May("timeout", "number"),
   May("form_field_name_v", "array"), May("form_field_mime_v", "array"),
   May("form_field_data_v", "array")}

\* The two functions of HTTP, one by one: the table is too large for one step.
LEMMA HttpFunctions ==
  /\ DOMAIN HttpApi = {"net_http_request", "net_http_download"}
  /\ Params(HttpApi["net_http_request"]) = RequestParams
  /\ HttpApi["net_http_request"].together =
       {{"form_field_name_v", "form_field_mime_v", "form_field_data_v"}, {"cFILE", "fileSize"}}
  /\ DOMAIN HttpApi["net_http_request"].stages \subseteq Nat
  /\ Params(HttpApi["net_http_download"]) = {Text("url"), Text("file"), May("timeout", "number")}
  /\ HttpApi["net_http_download"].together = {}
  /\ DOMAIN HttpApi["net_http_download"].stages \subseteq Nat
  <1>1. {May(k, "array") : k \in FormKeys} =
          {May("form_field_name_v", "array"), May("form_field_mime_v", "array"),
           May("form_field_data_v", "array")}
    BY DEF FormKeys
  <1>2. PICK S : /\ HttpApi["net_http_request"] =
                      Together({FormKeys, {"cFILE", "fileSize"}}, Fn(<<S>>, "json"))
                 /\ S = RequestParams
    <2> DEFINE S == {Text("url"), Number("method"), May("params", "text"),
                     May("rawBodyBytes", "array"), May("header_v", "array"),
                     May("cFILE", "pointer"), May("fileSize", "number"),
                     May("timeout", "number")}
                    \cup {May(k, "array") : k \in FormKeys}
    <2>1. HttpApi["net_http_request"] =
            Together({FormKeys, {"cFILE", "fileSize"}}, Fn(<<S>>, "json"))
      BY DEF HttpApi
    <2>2. S = RequestParams
      BY <1>1 DEF RequestParams
    <2> HIDE DEF S
    <2> QED
      BY <2>1, <2>2
  <1>3. HttpApi["net_http_download"] =
          Fn(<<{Text("url"), Text("file"), May("timeout", "number")}>>, "flag")
    BY DEF HttpApi
  <1>4. /\ DOMAIN HttpApi["net_http_request"].stages \subseteq Nat
        /\ Params(HttpApi["net_http_request"]) = RequestParams
        /\ HttpApi["net_http_request"].together = {FormKeys, {"cFILE", "fileSize"}}
    BY <1>2, TogetherFacts
  <1>5. Params(HttpApi["net_http_download"]) = {Text("url"), Text("file"), May("timeout", "number")}
    BY <1>3, Stages
  <1>6. HttpApi["net_http_download"].together = {} /\ DOMAIN HttpApi["net_http_download"].stages \subseteq Nat
    BY <1>3 DEF Fn
  <1>7. DOMAIN HttpApi = {"net_http_request", "net_http_download"}
    BY DEF HttpApi
  <1> QED
    BY <1>4, <1>5, <1>6, <1>7 DEF FormKeys

\* HttpApi, as JS calls it.
LEMMA JsHttpWrappers ==
  \A fn \in DOMAIN HttpApi :
    /\ Declared(HttpApi[fn])
    /\ fn \in DOMAIN JsHttp
    /\ JsHttp[fn].calls = fn
    /\ TypesAgree(HttpApi[fn], JsHttp[fn])
    /\ Complete(HttpApi[fn], JsHttp[fn])
  <1> DEFINE req == JsHttp["net_http_request"].sends
             down == JsHttp["net_http_download"].sends
  <1>1. /\ DOMAIN req = {"url", "method", "params", "header_v", "rawBodyBytes", "timeout",
                         "form_field_name_v", "form_field_mime_v", "form_field_data_v"}
        /\ req["url"] = "string" /\ req["method"] = "number" /\ req["params"] = "string"
        /\ req["header_v"] = "array" /\ req["rawBodyBytes"] = "array" /\ req["timeout"] = "fixed"
        /\ req["form_field_name_v"] = "array" /\ req["form_field_mime_v"] = "array" /\ req["form_field_data_v"] = "array"
    BY DEF JsHttp, Wrap
  <1>2. /\ DOMAIN down = {"url", "file", "timeout"}
        /\ down["url"] = "string" /\ down["file"] = "string" /\ down["timeout"] = "fixed"
    BY DEF JsHttp, Wrap
  <1>3. /\ JsHttp["net_http_request"].calls = "net_http_request"
        /\ JsHttp["net_http_download"].calls = "net_http_download"
        /\ DOMAIN JsHttp = {"net_http_request", "net_http_download"}
    BY DEF JsHttp, Wrap
  <1> HIDE DEF req, down
  <1>4. Declared(HttpApi["net_http_request"]) /\ Declared(HttpApi["net_http_download"])
    BY HttpFunctions DEF Declared, RequestParams, Text, Number, Need, May
  <1>5. /\ \A p \in Params(HttpApi["net_http_request"]) : p.key \in DOMAIN req => req[p.key] \in Takes(p.as)
        /\ \A p \in Params(HttpApi["net_http_request"]) : p.must => p.key \in DOMAIN req
    BY <1>1, HttpFunctions DEF RequestParams, Takes, Handles, Text, Number, Need, May
  <1>6. /\ \A p \in Params(HttpApi["net_http_download"]) : p.key \in DOMAIN down => down[p.key] \in Takes(p.as)
        /\ \A p \in Params(HttpApi["net_http_download"]) : p.must => p.key \in DOMAIN down
    BY <1>2, HttpFunctions DEF Takes, Handles, Text, Number, Need, May
  <1>7. Keys(HttpApi["net_http_request"]) = {"url", "method", "params", "rawBodyBytes", "header_v", "cFILE", "fileSize",
                      "timeout", "form_field_name_v", "form_field_mime_v", "form_field_data_v"}
    BY HttpFunctions DEF Keys, RequestParams, Text, Number, Need, May
  <1>8. Keys(HttpApi["net_http_download"]) = {"url", "file", "timeout"}
    BY HttpFunctions DEF Keys, Text, Number, Need, May
  <1>9. Grouped(HttpApi["net_http_request"], JsHttp["net_http_request"])
    BY <1>1, <1>7, HttpFunctions DEF Grouped, req
  <1>10. Grouped(HttpApi["net_http_download"], JsHttp["net_http_download"])
    BY HttpFunctions DEF Grouped
  <1> QED
    BY <1>1, <1>2, <1>3, <1>4, <1>5, <1>6, <1>7, <1>8, <1>9, <1>10, HttpFunctions
       DEF TypesAgree, Needed, Complete, req, down

\* HttpApi, as Lua calls it, which has no forms.
LEMMA LuaHttpWrappers ==
  \A fn \in DOMAIN HttpApi :
    /\ Declared(HttpApi[fn])
    /\ fn \in DOMAIN LuaHttp
    /\ LuaHttp[fn].calls = fn
    /\ TypesAgree(HttpApi[fn], LuaHttp[fn])
    /\ Complete(HttpApi[fn], LuaHttp[fn])
  <1> DEFINE req == LuaHttp["net_http_request"].sends
             down == LuaHttp["net_http_download"].sends
  <1>1. /\ DOMAIN req = {"url", "method", "params", "header_v", "rawBodyBytes", "timeout"}
        /\ req["url"] = "string" /\ req["method"] = "number" /\ req["params"] = "string"
        /\ req["header_v"] = "array" /\ req["rawBodyBytes"] = "array" /\ req["timeout"] = "fixed"
    BY DEF LuaHttp, JsHttp, Wrap
  <1>2. /\ DOMAIN down = {"url", "file", "timeout"}
        /\ down["url"] = "string" /\ down["file"] = "string" /\ down["timeout"] = "fixed"
    BY DEF LuaHttp, JsHttp, Wrap
  <1>3. /\ LuaHttp["net_http_request"].calls = "net_http_request"
        /\ LuaHttp["net_http_download"].calls = "net_http_download"
        /\ DOMAIN LuaHttp = {"net_http_request", "net_http_download"}
    BY DEF LuaHttp, JsHttp, Wrap
  <1> HIDE DEF req, down
  <1>4. Declared(HttpApi["net_http_request"]) /\ Declared(HttpApi["net_http_download"])
    BY HttpFunctions DEF Declared, RequestParams, Text, Number, Need, May
  <1>5. /\ \A p \in Params(HttpApi["net_http_request"]) : p.key \in DOMAIN req => req[p.key] \in Takes(p.as)
        /\ \A p \in Params(HttpApi["net_http_request"]) : p.must => p.key \in DOMAIN req
    BY <1>1, HttpFunctions DEF RequestParams, Takes, Handles, Text, Number, Need, May
  <1>6. /\ \A p \in Params(HttpApi["net_http_download"]) : p.key \in DOMAIN down => down[p.key] \in Takes(p.as)
        /\ \A p \in Params(HttpApi["net_http_download"]) : p.must => p.key \in DOMAIN down
    BY <1>2, HttpFunctions DEF Takes, Handles, Text, Number, Need, May
  <1>7. Keys(HttpApi["net_http_request"]) = {"url", "method", "params", "rawBodyBytes", "header_v", "cFILE", "fileSize",
                      "timeout", "form_field_name_v", "form_field_mime_v", "form_field_data_v"}
    BY HttpFunctions DEF Keys, RequestParams, Text, Number, Need, May
  <1>8. Keys(HttpApi["net_http_download"]) = {"url", "file", "timeout"}
    BY HttpFunctions DEF Keys, Text, Number, Need, May
  <1>9. Grouped(HttpApi["net_http_request"], LuaHttp["net_http_request"])
    BY <1>1, <1>7, HttpFunctions DEF Grouped, req
  <1>10. Grouped(HttpApi["net_http_download"], LuaHttp["net_http_download"])
    BY HttpFunctions DEF Grouped
  <1> QED
    BY <1>1, <1>2, <1>3, <1>4, <1>5, <1>6, <1>7, <1>8, <1>9, <1>10, HttpFunctions
       DEF TypesAgree, Needed, Complete, req, down

\* The names of the functions, table by table.
LEMMA FunctionNames ==
  /\ DOMAIN MiscApi = {"get_version", "root_path", "device_type", "device_name",
                       "device_manufacturer", "device_os_version", "device_cpu_arch",
                       "call_platform", "log_print"}
  /\ DOMAIN HttpApi = {"net_http_request", "net_http_download"}
  /\ DOMAIN SqliteApi = {"store_sqlite_open", "store_sqlite_execute",
                         "store_sqlite_query_do", "store_sqlite_close"}
  /\ DOMAIN QueryApi = {"store_sqlite_query_read_row",
                        "store_sqlite_query_read_column_text",
                        "store_sqlite_query_read_column_integer",
                        "store_sqlite_query_read_column_float",
                        "store_sqlite_query_drop"}
  /\ DOMAIN KvValueApi = {"store_kv_open", "store_kv_read_string",
                          "store_kv_write_string", "store_kv_read_integer",
                          "store_kv_write_integer", "store_kv_read_float",
                          "store_kv_write_float"}
  /\ DOMAIN KvKeyApi = {"store_kv_all_keys", "store_kv_contains", "store_kv_remove",
                        "store_kv_clear", "store_kv_close"}
  /\ DOMAIN CodingApi = {"coding_case_upper", "coding_case_lower",
                         "coding_hex_bytes2str", "coding_hex_str2bytes",
                         "coding_bytes2str", "coding_str2bytes"}
  /\ DOMAIN AesApi = {"crypto_rand", "crypto_aes_encrypt", "crypto_aes_decrypt",
                      "crypto_aes_gcm_encrypt", "crypto_aes_gcm_decrypt"}
  /\ DOMAIN RsaApi = {"crypto_rsa_gen_key", "crypto_rsa_encrypt",
                      "crypto_rsa_decrypt"}
  /\ DOMAIN HashApi = {"crypto_hash_md5", "crypto_hash_sha1", "crypto_hash_sha256",
                       "crypto_base64_encode", "crypto_base64_decode"}
  /\ DOMAIN ZipApi = {"z_zip_init", "z_zip_input", "z_zip_process_do",
                      "z_zip_process_finished", "z_zip_release"}
  /\ DOMAIN UnzipApi = {"z_unzip_init", "z_unzip_input", "z_unzip_process_do",
                        "z_unzip_process_finished", "z_unzip_release"}
  /\ DOMAIN ZBytesApi = {"z_bytes_zip", "z_bytes_unzip"}
  <1>1. DOMAIN MiscApi = {"get_version", "root_path", "device_type", "device_name",
            "device_manufacturer", "device_os_version", "device_cpu_arch",
            "call_platform", "log_print"}
    BY DEF MiscApi
  <1>2. DOMAIN HttpApi = {"net_http_request", "net_http_download"}
    BY DEF HttpApi
  <1>3. DOMAIN SqliteApi = {"store_sqlite_open", "store_sqlite_execute", "store_sqlite_query_do",
            "store_sqlite_close"}
    BY DEF SqliteApi
  <1>4. DOMAIN QueryApi = {"store_sqlite_query_read_row", "store_sqlite_query_read_column_text",
            "store_sqlite_query_read_column_integer",
            "store_sqlite_query_read_column_float", "store_sqlite_query_drop"}
    BY DEF QueryApi
  <1>5. DOMAIN KvValueApi = {"store_kv_open", "store_kv_read_string", "store_kv_write_string",
            "store_kv_read_integer", "store_kv_write_integer", "store_kv_read_float",
            "store_kv_write_float"}
    BY DEF KvValueApi
  <1>6. DOMAIN KvKeyApi = {"store_kv_all_keys", "store_kv_contains", "store_kv_remove",
            "store_kv_clear", "store_kv_close"}
    BY DEF KvKeyApi
  <1>7. DOMAIN CodingApi = {"coding_case_upper", "coding_case_lower", "coding_hex_bytes2str",
            "coding_hex_str2bytes", "coding_bytes2str", "coding_str2bytes"}
    BY DEF CodingApi
  <1>8. DOMAIN AesApi = {"crypto_rand", "crypto_aes_encrypt", "crypto_aes_decrypt",
            "crypto_aes_gcm_encrypt", "crypto_aes_gcm_decrypt"}
    BY DEF AesApi
  <1>9. DOMAIN RsaApi = {"crypto_rsa_gen_key", "crypto_rsa_encrypt", "crypto_rsa_decrypt"}
    BY DEF RsaApi
  <1>10. DOMAIN HashApi = {"crypto_hash_md5", "crypto_hash_sha1", "crypto_hash_sha256",
            "crypto_base64_encode", "crypto_base64_decode"}
    BY DEF HashApi
  <1>11. DOMAIN ZipApi = {"z_zip_init", "z_zip_input", "z_zip_process_do",
            "z_zip_process_finished", "z_zip_release"}
    BY DEF ZipApi
  <1>12. DOMAIN UnzipApi = {"z_unzip_init", "z_unzip_input", "z_unzip_process_do",
            "z_unzip_process_finished", "z_unzip_release"}
    BY DEF UnzipApi
  <1>13. DOMAIN ZBytesApi = {"z_bytes_zip", "z_bytes_unzip"}
    BY DEF ZBytesApi
  <1> QED
    BY <1>1, <1>2, <1>3, <1>4, <1>5, <1>6, <1>7, <1>8, <1>9, <1>10, <1>11, <1>12, <1>13

\* The names of the wrappers are those of the functions they are for.
LEMMA WrapperNames ==
  /\ DOMAIN JsMisc = DOMAIN MiscApi
  /\ DOMAIN JsHttp = DOMAIN HttpApi
  /\ DOMAIN JsSqlite = DOMAIN SqliteApi \cup DOMAIN QueryApi
  /\ DOMAIN JsKv = DOMAIN KvValueApi \cup DOMAIN KvKeyApi
  /\ DOMAIN JsCoding = DOMAIN CodingApi
  /\ DOMAIN JsCrypto = DOMAIN AesApi \cup DOMAIN RsaApi \cup DOMAIN HashApi
  /\ DOMAIN JsZip = DOMAIN ZipApi \cup DOMAIN UnzipApi
  /\ DOMAIN JsZBytes = DOMAIN ZBytesApi
  /\ DOMAIN LuaMisc = DOMAIN MiscApi \ {"call_platform"}
  /\ DOMAIN LuaHttp = DOMAIN HttpApi
  /\ DOMAIN LuaZBytes = DOMAIN ZBytesApi
  <1>1. DOMAIN JsMisc = DOMAIN MiscApi
    BY FunctionNames DEF JsMisc
  <1>2. DOMAIN JsHttp = DOMAIN HttpApi
    BY FunctionNames DEF JsHttp
  <1>3. DOMAIN JsSqlite = DOMAIN SqliteApi \cup DOMAIN QueryApi
    BY FunctionNames DEF JsSqlite
  <1>4. DOMAIN JsKv = DOMAIN KvValueApi \cup DOMAIN KvKeyApi
    BY FunctionNames DEF JsKv
  <1>5. DOMAIN JsCoding = DOMAIN CodingApi
    BY FunctionNames DEF JsCoding
  <1>6. DOMAIN JsCrypto = DOMAIN AesApi \cup DOMAIN RsaApi \cup DOMAIN HashApi
    BY FunctionNames DEF JsCrypto
  <1>7. DOMAIN JsZip = DOMAIN ZipApi \cup DOMAIN UnzipApi
    BY FunctionNames DEF JsZip
  <1>8. DOMAIN JsZBytes = DOMAIN ZBytesApi
    BY FunctionNames DEF JsZBytes
  <1>9. DOMAIN LuaMisc = DOMAIN MiscApi \ {"call_platform"}
    BY FunctionNames, <1>1 DEF LuaMisc
  <1>10. DOMAIN LuaHttp = DOMAIN HttpApi
    BY FunctionNames, <1>1 DEF LuaHttp
  <1>11. DOMAIN LuaZBytes = DOMAIN ZBytesApi
    BY FunctionNames, <1>1 DEF LuaZBytes
  <1> QED
    BY <1>1, <1>2, <1>3, <1>4, <1>5, <1>6, <1>7, <1>8, <1>9, <1>10, <1>11

\* No two tables share a name, so that a look-up in the stores' functions finds the
\* entry of its table; the same holds for what follows.
LEMMA StoreApiIsItsTables ==
  /\ DOMAIN StoreApi = DOMAIN SqliteApi \cup DOMAIN QueryApi \cup DOMAIN KvValueApi
                  \cup DOMAIN KvKeyApi
  /\ \A fn \in DOMAIN SqliteApi : StoreApi[fn] = SqliteApi[fn]
  /\ \A fn \in DOMAIN QueryApi : StoreApi[fn] = QueryApi[fn]
  /\ \A fn \in DOMAIN KvValueApi : StoreApi[fn] = KvValueApi[fn]
  /\ \A fn \in DOMAIN KvKeyApi : StoreApi[fn] = KvKeyApi[fn]
  <1> DEFINE S == Both(SqliteApi, QueryApi)
             K == Both(KvValueApi, KvKeyApi)
  <1> HIDE DEF S, K
  <1>1. /\ DOMAIN S = DOMAIN SqliteApi \cup DOMAIN QueryApi
        /\ \A fn \in DOMAIN SqliteApi : S[fn] = SqliteApi[fn]
        /\ \A fn \in DOMAIN QueryApi : S[fn] = QueryApi[fn]
    <2>1. \A fn \in DOMAIN SqliteApi : fn \notin DOMAIN QueryApi
      BY FunctionNames
    <2>2. /\ DOMAIN Both(SqliteApi, QueryApi) = DOMAIN SqliteApi \cup DOMAIN QueryApi
          /\ \A fn \in DOMAIN SqliteApi : Both(SqliteApi, QueryApi)[fn] = SqliteApi[fn]
          /\ \A fn \in DOMAIN QueryApi : Both(SqliteApi, QueryApi)[fn] = QueryApi[fn]
      BY <2>1, BothApart
    <2>3. S = Both(SqliteApi, QueryApi)
      BY DEF S
    <2> QED
      BY <2>2, <2>3
  <1>2. /\ DOMAIN K = DOMAIN KvValueApi \cup DOMAIN KvKeyApi
        /\ \A fn \in DOMAIN KvValueApi : K[fn] = KvValueApi[fn]
        /\ \A fn \in DOMAIN KvKeyApi : K[fn] = KvKeyApi[fn]
    <2>1. \A fn \in DOMAIN KvValueApi : fn \notin DOMAIN KvKeyApi
      BY FunctionNames
    <2>2. /\ DOMAIN Both(KvValueApi, KvKeyApi) = DOMAIN KvValueApi \cup DOMAIN KvKeyApi
          /\ \A fn \in DOMAIN KvValueApi : Both(KvValueApi, KvKeyApi)[fn] = KvValueApi[fn]
          /\ \A fn \in DOMAIN KvKeyApi : Both(KvValueApi, KvKeyApi)[fn] = KvKeyApi[fn]
      BY <2>1, BothApart
    <2>3. K = Both(KvValueApi, KvKeyApi)
      BY DEF K
    <2> QED
      BY <2>2, <2>3
  <1> QED
    <2>1. \A fn \in DOMAIN S : fn \notin DOMAIN K
      BY <1>1, <1>2, FunctionNames
    <2>2. /\ DOMAIN Both(S, K) = DOMAIN S \cup DOMAIN K
          /\ \A fn \in DOMAIN S : Both(S, K)[fn] = S[fn]
          /\ \A fn \in DOMAIN K : Both(S, K)[fn] = K[fn]
      BY <2>1, BothApart
    <2>3. StoreApi = Both(S, K)
      BY DEF StoreApi, S, K
    <2> QED
      BY <1>1, <1>2, <2>2, <2>3

\* The functions of cryptography are those of its three tables.
LEMMA CryptoApiIsItsTables ==
  /\ DOMAIN CryptoApi = DOMAIN AesApi \cup DOMAIN RsaApi \cup DOMAIN HashApi
  /\ \A fn \in DOMAIN AesApi : CryptoApi[fn] = AesApi[fn]
  /\ \A fn \in DOMAIN RsaApi : CryptoApi[fn] = RsaApi[fn]
  /\ \A fn \in DOMAIN HashApi : CryptoApi[fn] = HashApi[fn]
  <1> DEFINE RH == Both(RsaApi, HashApi)
  <1> HIDE DEF RH
  <1>1. /\ DOMAIN RH = DOMAIN RsaApi \cup DOMAIN HashApi
        /\ \A fn \in DOMAIN RsaApi : RH[fn] = RsaApi[fn]
        /\ \A fn \in DOMAIN HashApi : RH[fn] = HashApi[fn]
    <2>1. \A fn \in DOMAIN RsaApi : fn \notin DOMAIN HashApi
      BY FunctionNames
    <2>2. /\ DOMAIN Both(RsaApi, HashApi) = DOMAIN RsaApi \cup DOMAIN HashApi
          /\ \A fn \in DOMAIN RsaApi : Both(RsaApi, HashApi)[fn] = RsaApi[fn]
          /\ \A fn \in DOMAIN HashApi : Both(RsaApi, HashApi)[fn] = HashApi[fn]
      BY <2>1, BothApart
    <2>3. RH = Both(RsaApi, HashApi)
      BY DEF RH
    <2> QED
      BY <2>2, <2>3
  <1> QED
    <2>1. \A fn \in DOMAIN AesApi : fn \notin DOMAIN RH
      BY <1>1, FunctionNames
    <2>2. /\ DOMAIN Both(AesApi, RH) = DOMAIN AesApi \cup DOMAIN RH
          /\ \A fn \in DOMAIN AesApi : Both(AesApi, RH)[fn] = AesApi[fn]
          /\ \A fn \in DOMAIN RH : Both(AesApi, RH)[fn] = RH[fn]
      BY <2>1, BothApart
    <2>3. CryptoApi = Both(AesApi, RH)
      BY DEF CryptoApi, RH
    <2> QED
      BY <1>1, <2>2, <2>3

\* The functions of zip are those of its three tables.
LEMMA ZApiIsItsTables ==
  /\ DOMAIN ZApi = DOMAIN ZipApi \cup DOMAIN UnzipApi \cup DOMAIN ZBytesApi
  /\ \A fn \in DOMAIN ZipApi : ZApi[fn] = ZipApi[fn]
  /\ \A fn \in DOMAIN UnzipApi : ZApi[fn] = UnzipApi[fn]
  /\ \A fn \in DOMAIN ZBytesApi : ZApi[fn] = ZBytesApi[fn]
  <1> DEFINE Z == Both(ZipApi, UnzipApi)
  <1> HIDE DEF Z
  <1>1. /\ DOMAIN Z = DOMAIN ZipApi \cup DOMAIN UnzipApi
        /\ \A fn \in DOMAIN ZipApi : Z[fn] = ZipApi[fn]
        /\ \A fn \in DOMAIN UnzipApi : Z[fn] = UnzipApi[fn]
    <2>1. \A fn \in DOMAIN ZipApi : fn \notin DOMAIN UnzipApi
      BY FunctionNames
    <2>2. /\ DOMAIN Both(ZipApi, UnzipApi) = DOMAIN ZipApi \cup DOMAIN UnzipApi
          /\ \A fn \in DOMAIN ZipApi : Both(ZipApi, UnzipApi)[fn] = ZipApi[fn]
          /\ \A fn \in DOMAIN UnzipApi : Both(ZipApi, UnzipApi)[fn] = UnzipApi[fn]
      BY <2>1, BothApart
    <2>3. Z = Both(ZipApi, UnzipApi)
      BY DEF Z
    <2> QED
      BY <2>2, <2>3
  <1> QED
    <2>1. \A fn \in DOMAIN Z : fn \notin DOMAIN ZBytesApi
      BY <1>1, FunctionNames
    <2>2. /\ DOMAIN Both(Z, ZBytesApi) = DOMAIN Z \cup DOMAIN ZBytesApi
          /\ \A fn \in DOMAIN Z : Both(Z, ZBytesApi)[fn] = Z[fn]
          /\ \A fn \in DOMAIN ZBytesApi : Both(Z, ZBytesApi)[fn] = ZBytesApi[fn]
      BY <2>1, BothApart
    <2>3. ZApi = Both(Z, ZBytesApi)
      BY DEF ZApi, Z
    <2> QED
      BY <1>1, <2>2, <2>3

\* A look-up among all functions finds the entry of the function's own table.
LEMMA ApiIsItsTables ==
  /\ DOMAIN Api = DOMAIN MiscApi \cup DOMAIN HttpApi \cup DOMAIN StoreApi
             \cup DOMAIN CodingApi \cup DOMAIN CryptoApi \cup DOMAIN ZApi
  /\ \A fn \in DOMAIN MiscApi : Api[fn] = MiscApi[fn]
  /\ \A fn \in DOMAIN HttpApi : Api[fn] = HttpApi[fn]
  /\ \A fn \in DOMAIN StoreApi : Api[fn] = StoreApi[fn]
  /\ \A fn \in DOMAIN CodingApi : Api[fn] = CodingApi[fn]
  /\ \A fn \in DOMAIN CryptoApi : Api[fn] = CryptoApi[fn]
  /\ \A fn \in DOMAIN ZApi : Api[fn] = ZApi[fn]
  <1> DEFINE M == Both(MiscApi, HttpApi)
             MS == Both(M, StoreApi)
             CZ == Both(CryptoApi, ZApi)
             CCZ == Both(CodingApi, CZ)
  <1> HIDE DEF M, MS, CZ, CCZ
  <1>1. /\ DOMAIN M = DOMAIN MiscApi \cup DOMAIN HttpApi
        /\ \A fn \in DOMAIN MiscApi : M[fn] = MiscApi[fn]
        /\ \A fn \in DOMAIN HttpApi : M[fn] = HttpApi[fn]
    <2>1. \A fn \in DOMAIN MiscApi : fn \notin DOMAIN HttpApi
      BY FunctionNames, StoreApiIsItsTables, CryptoApiIsItsTables, ZApiIsItsTables
    <2>2. /\ DOMAIN Both(MiscApi, HttpApi) = DOMAIN MiscApi \cup DOMAIN HttpApi
          /\ \A fn \in DOMAIN MiscApi : Both(MiscApi, HttpApi)[fn] = MiscApi[fn]
          /\ \A fn \in DOMAIN HttpApi : Both(MiscApi, HttpApi)[fn] = HttpApi[fn]
      BY <2>1, BothApart
    <2>3. M = Both(MiscApi, HttpApi)
      BY DEF M
    <2> QED
      BY <2>2, <2>3
  <1>2. /\ DOMAIN MS = DOMAIN MiscApi \cup DOMAIN HttpApi \cup DOMAIN StoreApi
        /\ \A fn \in DOMAIN MiscApi : MS[fn] = MiscApi[fn]
        /\ \A fn \in DOMAIN HttpApi : MS[fn] = HttpApi[fn]
        /\ \A fn \in DOMAIN StoreApi : MS[fn] = StoreApi[fn]
    <2>1. \A fn \in DOMAIN M : fn \notin DOMAIN StoreApi
      BY <1>1, FunctionNames, StoreApiIsItsTables, CryptoApiIsItsTables, ZApiIsItsTables
    <2>2. /\ DOMAIN Both(M, StoreApi) = DOMAIN M \cup DOMAIN StoreApi
          /\ \A fn \in DOMAIN M : Both(M, StoreApi)[fn] = M[fn]
          /\ \A fn \in DOMAIN StoreApi : Both(M, StoreApi)[fn] = StoreApi[fn]
      BY <2>1, BothApart
    <2>3. MS = Both(M, StoreApi)
      BY DEF MS
    <2> QED
      BY <1>1, <2>2, <2>3
  <1>3. /\ DOMAIN CZ = DOMAIN CryptoApi \cup DOMAIN ZApi
        /\ \A fn \in DOMAIN CryptoApi : CZ[fn] = CryptoApi[fn]
        /\ \A fn \in DOMAIN ZApi : CZ[fn] = ZApi[fn]
    <2>1. \A fn \in DOMAIN CryptoApi : fn \notin DOMAIN ZApi
      BY FunctionNames, StoreApiIsItsTables, CryptoApiIsItsTables, ZApiIsItsTables
    <2>2. /\ DOMAIN Both(CryptoApi, ZApi) = DOMAIN CryptoApi \cup DOMAIN ZApi
          /\ \A fn \in DOMAIN CryptoApi : Both(CryptoApi, ZApi)[fn] = CryptoApi[fn]
          /\ \A fn \in DOMAIN ZApi : Both(CryptoApi, ZApi)[fn] = ZApi[fn]
      BY <2>1, BothApart
    <2>3. CZ = Both(CryptoApi, ZApi)
      BY DEF CZ
    <2> QED
      BY <2>2, <2>3
  <1>4. /\ DOMAIN CCZ = DOMAIN CodingApi \cup DOMAIN CryptoApi \cup DOMAIN ZApi
        /\ \A fn \in DOMAIN CodingApi : CCZ[fn] = CodingApi[fn]
        /\ \A fn \in DOMAIN CryptoApi : CCZ[fn] = CryptoApi[fn]
        /\ \A fn \in DOMAIN ZApi : CCZ[fn] = ZApi[fn]
    <2>1. \A fn \in DOMAIN CodingApi : fn \notin DOMAIN CZ
      BY <1>3, FunctionNames, StoreApiIsItsTables, CryptoApiIsItsTables, ZApiIsItsTables
    <2>2. /\ DOMAIN Both(CodingApi, CZ) = DOMAIN CodingApi \cup DOMAIN CZ
          /\ \A fn \in DOMAIN CodingApi : Both(CodingApi, CZ)[fn] = CodingApi[fn]
          /\ \A fn \in DOMAIN CZ : Both(CodingApi, CZ)[fn] = CZ[fn]
      BY <2>1, BothApart
    <2>3. CCZ = Both(CodingApi, CZ)
      BY DEF CCZ
    <2> QED
      BY <1>3, <2>2, <2>3
  <1> QED
    <2>1. \A fn \in DOMAIN MS : fn \notin DOMAIN CCZ
      BY <1>2, <1>4, FunctionNames, StoreApiIsItsTables, CryptoApiIsItsTables, ZApiIsItsTables
    <2>2. /\ DOMAIN Both(MS, CCZ) = DOMAIN MS \cup DOMAIN CCZ
          /\ \A fn \in DOMAIN MS : Both(MS, CCZ)[fn] = MS[fn]
          /\ \A fn \in DOMAIN CCZ : Both(MS, CCZ)[fn] = CCZ[fn]
      BY <2>1, BothApart
    <2>3. Api = Both(MS, CCZ)
      BY DEF Api, MS, M, CCZ, CZ
    <2> QED
      BY <1>2, <1>4, <2>2, <2>3

\* A look-up in the JS library finds the entry of the wrapper's own table.
LEMMA JsIsItsTables ==
  /\ DOMAIN Js = DOMAIN JsMisc \cup DOMAIN JsHttp \cup DOMAIN JsSqlite \cup DOMAIN JsKv
            \cup DOMAIN JsCoding \cup DOMAIN JsCrypto \cup DOMAIN JsZip \cup DOMAIN JsZBytes
  /\ \A fn \in DOMAIN JsMisc : Js[fn] = JsMisc[fn]
  /\ \A fn \in DOMAIN JsHttp : Js[fn] = JsHttp[fn]
  /\ \A fn \in DOMAIN JsSqlite : Js[fn] = JsSqlite[fn]
  /\ \A fn \in DOMAIN JsKv : Js[fn] = JsKv[fn]
  /\ \A fn \in DOMAIN JsCoding : Js[fn] = JsCoding[fn]
  /\ \A fn \in DOMAIN JsCrypto : Js[fn] = JsCrypto[fn]
  /\ \A fn \in DOMAIN JsZip : Js[fn] = JsZip[fn]
  /\ \A fn \in DOMAIN JsZBytes : Js[fn] = JsZBytes[fn]
  <1> DEFINE M == Both(JsMisc, JsHttp)
             MS == Both(M, JsStore)
             CZ == Both(JsCrypto, JsZ)
             CCZ == Both(JsCoding, CZ)
  <1> HIDE DEF M, MS, CZ, CCZ
  <1>1. /\ DOMAIN M = DOMAIN JsMisc \cup DOMAIN JsHttp
        /\ \A fn \in DOMAIN JsMisc : M[fn] = JsMisc[fn]
        /\ \A fn \in DOMAIN JsHttp : M[fn] = JsHttp[fn]
    <2>1. \A fn \in DOMAIN JsMisc : fn \notin DOMAIN JsHttp
      BY FunctionNames, WrapperNames
    <2>2. /\ DOMAIN Both(JsMisc, JsHttp) = DOMAIN JsMisc \cup DOMAIN JsHttp
          /\ \A fn \in DOMAIN JsMisc : Both(JsMisc, JsHttp)[fn] = JsMisc[fn]
          /\ \A fn \in DOMAIN JsHttp : Both(JsMisc, JsHttp)[fn] = JsHttp[fn]
      BY <2>1, BothApart
    <2>3. M = Both(JsMisc, JsHttp)
      BY DEF M
    <2> QED
      BY <2>2, <2>3
  <1>2. /\ DOMAIN JsStore = DOMAIN JsSqlite \cup DOMAIN JsKv
        /\ \A fn \in DOMAIN JsSqlite : JsStore[fn] = JsSqlite[fn]
        /\ \A fn \in DOMAIN JsKv : JsStore[fn] = JsKv[fn]
    <2>1. \A fn \in DOMAIN JsSqlite : fn \notin DOMAIN JsKv
      BY FunctionNames, WrapperNames
    <2>2. /\ DOMAIN Both(JsSqlite, JsKv) = DOMAIN JsSqlite \cup DOMAIN JsKv
          /\ \A fn \in DOMAIN JsSqlite : Both(JsSqlite, JsKv)[fn] = JsSqlite[fn]
          /\ \A fn \in DOMAIN JsKv : Both(JsSqlite, JsKv)[fn] = JsKv[fn]
      BY <2>1, BothApart
    <2>3. JsStore = Both(JsSqlite, JsKv)
      BY DEF JsStore
    <2> QED
      BY <2>2, <2>3
  <1>3. /\ DOMAIN MS = DOMAIN JsMisc \cup DOMAIN JsHttp \cup DOMAIN JsSqlite
                  \cup DOMAIN JsKv
        /\ \A fn \in DOMAIN JsMisc : MS[fn] = JsMisc[fn]
        /\ \A fn \in DOMAIN JsHttp : MS[fn] = JsHttp[fn]
        /\ \A fn \in DOMAIN JsSqlite : MS[fn] = JsSqlite[fn]
        /\ \A fn \in DOMAIN JsKv : MS[fn] = JsKv[fn]
    <2>1. \A fn \in DOMAIN M : fn \notin DOMAIN JsStore
      BY <1>1, <1>2, FunctionNames, WrapperNames
    <2>2. /\ DOMAIN Both(M, JsStore) = DOMAIN M \cup DOMAIN JsStore
          /\ \A fn \in DOMAIN M : Both(M, JsStore)[fn] = M[fn]
          /\ \A fn \in DOMAIN JsStore : Both(M, JsStore)[fn] = JsStore[fn]
      BY <2>1, BothApart
    <2>3. MS = Both(M, JsStore)
      BY DEF MS
    <2> QED
      BY <1>1, <1>2, <2>2, <2>3
  <1>4. /\ DOMAIN JsZ = DOMAIN JsZip \cup DOMAIN JsZBytes
        /\ \A fn \in DOMAIN JsZip : JsZ[fn] = JsZip[fn]
        /\ \A fn \in DOMAIN JsZBytes : JsZ[fn] = JsZBytes[fn]
    <2>1. \A fn \in DOMAIN JsZip : fn \notin DOMAIN JsZBytes
      BY FunctionNames, WrapperNames
    <2>2. /\ DOMAIN Both(JsZip, JsZBytes) = DOMAIN JsZip \cup DOMAIN JsZBytes
          /\ \A fn \in DOMAIN JsZip : Both(JsZip, JsZBytes)[fn] = JsZip[fn]
          /\ \A fn \in DOMAIN JsZBytes : Both(JsZip, JsZBytes)[fn] = JsZBytes[fn]
      BY <2>1, BothApart
    <2>3. JsZ = Both(JsZip, JsZBytes)
      BY DEF JsZ
    <2> QED
      BY <2>2, <2>3
  <1>5. /\ DOMAIN CZ = DOMAIN JsCrypto \cup DOMAIN JsZip \cup DOMAIN JsZBytes
        /\ \A fn \in DOMAIN JsCrypto : CZ[fn] = JsCrypto[fn]
        /\ \A fn \in DOMAIN JsZip : CZ[fn] = JsZip[fn]
        /\ \A fn \in DOMAIN JsZBytes : CZ[fn] = JsZBytes[fn]
    <2>1. \A fn \in DOMAIN JsCrypto : fn \notin DOMAIN JsZ
      BY <1>4, FunctionNames, WrapperNames
    <2>2. /\ DOMAIN Both(JsCrypto, JsZ) = DOMAIN JsCrypto \cup DOMAIN JsZ
          /\ \A fn \in DOMAIN JsCrypto : Both(JsCrypto, JsZ)[fn] = JsCrypto[fn]
          /\ \A fn \in DOMAIN JsZ : Both(JsCrypto, JsZ)[fn] = JsZ[fn]
      BY <2>1, BothApart
    <2>3. CZ = Both(JsCrypto, JsZ)
      BY DEF CZ
    <2> QED
      BY <1>4, <2>2, <2>3
  <1>6. /\ DOMAIN CCZ = DOMAIN JsCoding \cup DOMAIN JsCrypto \cup DOMAIN JsZip
                   \cup DOMAIN JsZBytes
        /\ \A fn \in DOMAIN JsCoding : CCZ[fn] = JsCoding[fn]
        /\ \A fn \in DOMAIN JsCrypto : CCZ[fn] = JsCrypto[fn]
        /\ \A fn \in DOMAIN JsZip : CCZ[fn] = JsZip[fn]
        /\ \A fn \in DOMAIN JsZBytes : CCZ[fn] = JsZBytes[fn]
    <2>1. \A fn \in DOMAIN JsCoding : fn \notin DOMAIN CZ
      BY <1>5, FunctionNames, WrapperNames
    <2>2. /\ DOMAIN Both(JsCoding, CZ) = DOMAIN JsCoding \cup DOMAIN CZ
          /\ \A fn \in DOMAIN JsCoding : Both(JsCoding, CZ)[fn] = JsCoding[fn]
          /\ \A fn \in DOMAIN CZ : Both(JsCoding, CZ)[fn] = CZ[fn]
      BY <2>1, BothApart
    <2>3. CCZ = Both(JsCoding, CZ)
      BY DEF CCZ
    <2> QED
      BY <1>5, <2>2, <2>3
  <1> QED
    <2>1. \A fn \in DOMAIN MS : fn \notin DOMAIN CCZ
      BY <1>3, <1>6, FunctionNames, WrapperNames
    <2>2. /\ DOMAIN Both(MS, CCZ) = DOMAIN MS \cup DOMAIN CCZ
          /\ \A fn \in DOMAIN MS : Both(MS, CCZ)[fn] = MS[fn]
          /\ \A fn \in DOMAIN CCZ : Both(MS, CCZ)[fn] = CCZ[fn]
      BY <2>1, BothApart
    <2>3. Js = Both(MS, CCZ)
      BY DEF Js, MS, M, CCZ, CZ
    <2> QED
      BY <1>3, <1>6, <2>2, <2>3

\* The tables that Lua has from JS.
LEMMA LuaNames ==
  /\ LuaSqlite = JsSqlite /\ LuaKv = JsKv /\ LuaCoding = JsCoding
  /\ LuaCrypto = JsCrypto /\ LuaZip = JsZip
  BY DEF LuaSqlite, LuaKv, LuaCoding, LuaCrypto, LuaZip

\* A look-up in the Lua library finds the entry of the wrapper's own table.
LEMMA LuaIsItsTables ==
  /\ DOMAIN Lua = DOMAIN LuaMisc \cup DOMAIN LuaHttp \cup DOMAIN LuaSqlite \cup DOMAIN LuaKv
             \cup DOMAIN LuaCoding \cup DOMAIN LuaCrypto \cup DOMAIN LuaZip
             \cup DOMAIN LuaZBytes
  /\ \A fn \in DOMAIN LuaMisc : Lua[fn] = LuaMisc[fn]
  /\ \A fn \in DOMAIN LuaHttp : Lua[fn] = LuaHttp[fn]
  /\ \A fn \in DOMAIN LuaSqlite : Lua[fn] = LuaSqlite[fn]
  /\ \A fn \in DOMAIN LuaKv : Lua[fn] = LuaKv[fn]
  /\ \A fn \in DOMAIN LuaCoding : Lua[fn] = LuaCoding[fn]
  /\ \A fn \in DOMAIN LuaCrypto : Lua[fn] = LuaCrypto[fn]
  /\ \A fn \in DOMAIN LuaZip : Lua[fn] = LuaZip[fn]
  /\ \A fn \in DOMAIN LuaZBytes : Lua[fn] = LuaZBytes[fn]
  <1> DEFINE M == Both(LuaMisc, LuaHttp)
             MS == Both(M, LuaStore)
             CZ == Both(LuaCrypto, LuaZ)
             CCZ == Both(LuaCoding, CZ)
  <1> HIDE DEF M, MS, CZ, CCZ
  <1>1. /\ DOMAIN M = DOMAIN LuaMisc \cup DOMAIN LuaHttp
        /\ \A fn \in DOMAIN LuaMisc : M[fn] = LuaMisc[fn]
        /\ \A fn \in DOMAIN LuaHttp : M[fn] = LuaHttp[fn]
    <2>1. \A fn \in DOMAIN LuaMisc : fn \notin DOMAIN LuaHttp
      BY FunctionNames, WrapperNames, LuaNames
    <2>2. /\ DOMAIN Both(LuaMisc, LuaHttp) = DOMAIN LuaMisc \cup DOMAIN LuaHttp
          /\ \A fn \in DOMAIN LuaMisc : Both(LuaMisc, LuaHttp)[fn] = LuaMisc[fn]
          /\ \A fn \in DOMAIN LuaHttp : Both(LuaMisc, LuaHttp)[fn] = LuaHttp[fn]
      BY <2>1, BothApart
    <2>3. M = Both(LuaMisc, LuaHttp)
      BY DEF M
    <2> QED
      BY <2>2, <2>3
  <1>2. /\ DOMAIN LuaStore = DOMAIN LuaSqlite \cup DOMAIN LuaKv
        /\ \A fn \in DOMAIN LuaSqlite : LuaStore[fn] = LuaSqlite[fn]
        /\ \A fn \in DOMAIN LuaKv : LuaStore[fn] = LuaKv[fn]
    <2>1. \A fn \in DOMAIN LuaSqlite : fn \notin DOMAIN LuaKv
      BY FunctionNames, WrapperNames, LuaNames
    <2>2. /\ DOMAIN Both(LuaSqlite, LuaKv) = DOMAIN LuaSqlite \cup DOMAIN LuaKv
          /\ \A fn \in DOMAIN LuaSqlite : Both(LuaSqlite, LuaKv)[fn] = LuaSqlite[fn]
          /\ \A fn \in DOMAIN LuaKv : Both(LuaSqlite, LuaKv)[fn] = LuaKv[fn]
      BY <2>1, BothApart
    <2>3. LuaStore = Both(LuaSqlite, LuaKv)
      BY DEF LuaStore
    <2> QED
      BY <2>2, <2>3
  <1>3. /\ DOMAIN MS = DOMAIN LuaMisc \cup DOMAIN LuaHttp \cup DOMAIN LuaSqlite
                  \cup DOMAIN LuaKv
        /\ \A fn \in DOMAIN LuaMisc : MS[fn] = LuaMisc[fn]
        /\ \A fn \in DOMAIN LuaHttp : MS[fn] = LuaHttp[fn]
        /\ \A fn \in DOMAIN LuaSqlite : MS[fn] = LuaSqlite[fn]
        /\ \A fn \in DOMAIN LuaKv : MS[fn] = LuaKv[fn]
    <2>1. \A fn \in DOMAIN M : fn \notin DOMAIN LuaStore
      BY <1>1, <1>2, FunctionNames, WrapperNames, LuaNames
    <2>2. /\ DOMAIN Both(M, LuaStore) = DOMAIN M \cup DOMAIN LuaStore
          /\ \A fn \in DOMAIN M : Both(M, LuaStore)[fn] = M[fn]
          /\ \A fn \in DOMAIN LuaStore : Both(M, LuaStore)[fn] = LuaStore[fn]
      BY <2>1, BothApart
    <2>3. MS = Both(M, LuaStore)
      BY DEF MS
    <2> QED
      BY <1>1, <1>2, <2>2, <2>3
  <1>4. /\ DOMAIN LuaZ = DOMAIN LuaZip \cup DOMAIN LuaZBytes
        /\ \A fn \in DOMAIN LuaZip : LuaZ[fn] = LuaZip[fn]
        /\ \A fn \in DOMAIN LuaZBytes : LuaZ[fn] = LuaZBytes[fn]
    <2>1. \A fn \in DOMAIN LuaZip : fn \notin DOMAIN LuaZBytes
      BY FunctionNames, WrapperNames, LuaNames
    <2>2. /\ DOMAIN Both(LuaZip, LuaZBytes) = DOMAIN LuaZip \cup DOMAIN LuaZBytes
          /\ \A fn \in DOMAIN LuaZip : Both(LuaZip, LuaZBytes)[fn] = LuaZip[fn]
          /\ \A fn \in DOMAIN LuaZBytes : Both(LuaZip, LuaZBytes)[fn] = LuaZBytes[fn]
      BY <2>1, BothApart
    <2>3. LuaZ = Both(LuaZip, LuaZBytes)
      BY DEF LuaZ
    <2> QED
      BY <2>2, <2>3
  <1>5. /\ DOMAIN CZ = DOMAIN LuaCrypto \cup DOMAIN LuaZip \cup DOMAIN LuaZBytes
        /\ \A fn \in DOMAIN LuaCrypto : CZ[fn] = LuaCrypto[fn]
        /\ \A fn \in DOMAIN LuaZip : CZ[fn] = LuaZip[fn]
        /\ \A fn \in DOMAIN LuaZBytes : CZ[fn] = LuaZBytes[fn]
    <2>1. \A fn \in DOMAIN LuaCrypto : fn \notin DOMAIN LuaZ
      BY <1>4, FunctionNames, WrapperNames, LuaNames
    <2>2. /\ DOMAIN Both(LuaCrypto, LuaZ) = DOMAIN LuaCrypto \cup DOMAIN LuaZ
          /\ \A fn \in DOMAIN LuaCrypto : Both(LuaCrypto, LuaZ)[fn] = LuaCrypto[fn]
          /\ \A fn \in DOMAIN LuaZ : Both(LuaCrypto, LuaZ)[fn] = LuaZ[fn]
      BY <2>1, BothApart
    <2>3. CZ = Both(LuaCrypto, LuaZ)
      BY DEF CZ
    <2> QED
      BY <1>4, <2>2, <2>3
  <1>6. /\ DOMAIN CCZ = DOMAIN LuaCoding \cup DOMAIN LuaCrypto \cup DOMAIN LuaZip
                   \cup DOMAIN LuaZBytes
        /\ \A fn \in DOMAIN LuaCoding : CCZ[fn] = LuaCoding[fn]
        /\ \A fn \in DOMAIN LuaCrypto : CCZ[fn] = LuaCrypto[fn]
        /\ \A fn \in DOMAIN LuaZip : CCZ[fn] = LuaZip[fn]
        /\ \A fn \in DOMAIN LuaZBytes : CCZ[fn] = LuaZBytes[fn]
    <2>1. \A fn \in DOMAIN LuaCoding : fn \notin DOMAIN CZ
      BY <1>5, FunctionNames, WrapperNames, LuaNames
    <2>2. /\ DOMAIN Both(LuaCoding, CZ) = DOMAIN LuaCoding \cup DOMAIN CZ
          /\ \A fn \in DOMAIN LuaCoding : Both(LuaCoding, CZ)[fn] = LuaCoding[fn]
          /\ \A fn \in DOMAIN CZ : Both(LuaCoding, CZ)[fn] = CZ[fn]
      BY <2>1, BothApart
    <2>3. CCZ = Both(LuaCoding, CZ)
      BY DEF CCZ
    <2> QED
      BY <1>5, <2>2, <2>3
  <1> QED
    <2>1. \A fn \in DOMAIN MS : fn \notin DOMAIN CCZ
      BY <1>3, <1>6, FunctionNames, WrapperNames, LuaNames
    <2>2. /\ DOMAIN Both(MS, CCZ) = DOMAIN MS \cup DOMAIN CCZ
          /\ \A fn \in DOMAIN MS : Both(MS, CCZ)[fn] = MS[fn]
          /\ \A fn \in DOMAIN CCZ : Both(MS, CCZ)[fn] = CCZ[fn]
      BY <2>1, BothApart
    <2>3. Lua = Both(MS, CCZ)
      BY DEF Lua, MS, M, CCZ, CZ
    <2> QED
      BY <1>3, <1>6, <2>2, <2>3

-----------------------------------------------------------------------------
(* The libraries                                                            *)

\* What a wrapper and the function of its name agree about; the functions of RSA are
\* left out where they do not.
Agrees(fn, wrap) ==
  /\ fn \in DOMAIN Api
  /\ Declared(Api[fn])
  /\ wrap.calls = fn
  /\ fn # "crypto_rsa_gen_key" => TypesAgree(Api[fn], wrap)
  /\ fn \notin Rsa => Complete(Api[fn], wrap)

\* Every wrapper of scripts/JS/DynXX.js agrees with the function it calls.
LEMMA JsWrappers == \A fn \in DOMAIN Js : Agrees(fn, Js[fn])
  <1>1. \A fn \in DOMAIN JsMisc : Agrees(fn, JsMisc[fn])
    <2>1. \A fn \in DOMAIN MiscApi : fn \in DOMAIN Api /\ Api[fn] = MiscApi[fn]
      BY ApiIsItsTables
    <2>2. \A fn \in DOMAIN MiscApi : Agrees(fn, JsMisc[fn])
      BY <2>1, MiscWrappers DEF Agrees
    <2> QED
      BY <2>2, WrapperNames
  <1>2. \A fn \in DOMAIN JsHttp : Agrees(fn, JsHttp[fn])
    <2>1. \A fn \in DOMAIN HttpApi : fn \in DOMAIN Api /\ Api[fn] = HttpApi[fn]
      BY ApiIsItsTables
    <2>2. \A fn \in DOMAIN HttpApi : Agrees(fn, JsHttp[fn])
      BY <2>1, JsHttpWrappers DEF Agrees
    <2> QED
      BY <2>2, WrapperNames
  <1>3. \A fn \in DOMAIN JsSqlite : Agrees(fn, JsSqlite[fn])
    <2>1. \A fn \in DOMAIN SqliteApi : fn \in DOMAIN Api /\ Api[fn] = SqliteApi[fn]
      BY ApiIsItsTables, StoreApiIsItsTables
    <2>2. \A fn \in DOMAIN SqliteApi : Agrees(fn, JsSqlite[fn])
      BY <2>1, SqliteWrappers DEF Agrees
    <2>3. \A fn \in DOMAIN QueryApi : fn \in DOMAIN Api /\ Api[fn] = QueryApi[fn]
      BY ApiIsItsTables, StoreApiIsItsTables
    <2>4. \A fn \in DOMAIN QueryApi : Agrees(fn, JsSqlite[fn])
      BY <2>3, QueryWrappers DEF Agrees
    <2> QED
      BY <2>2, <2>4, WrapperNames
  <1>4. \A fn \in DOMAIN JsKv : Agrees(fn, JsKv[fn])
    <2>1. \A fn \in DOMAIN KvValueApi : fn \in DOMAIN Api /\ Api[fn] = KvValueApi[fn]
      BY ApiIsItsTables, StoreApiIsItsTables
    <2>2. \A fn \in DOMAIN KvValueApi : Agrees(fn, JsKv[fn])
      BY <2>1, KvValueWrappers DEF Agrees
    <2>3. \A fn \in DOMAIN KvKeyApi : fn \in DOMAIN Api /\ Api[fn] = KvKeyApi[fn]
      BY ApiIsItsTables, StoreApiIsItsTables
    <2>4. \A fn \in DOMAIN KvKeyApi : Agrees(fn, JsKv[fn])
      BY <2>3, KvKeyWrappers DEF Agrees
    <2> QED
      BY <2>2, <2>4, WrapperNames
  <1>5. \A fn \in DOMAIN JsCoding : Agrees(fn, JsCoding[fn])
    <2>1. \A fn \in DOMAIN CodingApi : fn \in DOMAIN Api /\ Api[fn] = CodingApi[fn]
      BY ApiIsItsTables
    <2>2. \A fn \in DOMAIN CodingApi : Agrees(fn, JsCoding[fn])
      BY <2>1, CodingWrappers DEF Agrees
    <2> QED
      BY <2>2, WrapperNames
  <1>6. \A fn \in DOMAIN JsCrypto : Agrees(fn, JsCrypto[fn])
    <2>1. \A fn \in DOMAIN AesApi : fn \in DOMAIN Api /\ Api[fn] = AesApi[fn]
      BY ApiIsItsTables, CryptoApiIsItsTables
    <2>2. \A fn \in DOMAIN AesApi : Agrees(fn, JsCrypto[fn])
      BY <2>1, AesWrappers DEF Agrees
    <2>3. \A fn \in DOMAIN RsaApi : fn \in DOMAIN Api /\ Api[fn] = RsaApi[fn]
      BY ApiIsItsTables, CryptoApiIsItsTables
    <2>4. \A fn \in DOMAIN RsaApi : Agrees(fn, JsCrypto[fn])
      BY <2>3, RsaWrappers, FunctionNames DEF Agrees, Rsa
    <2>5. \A fn \in DOMAIN HashApi : fn \in DOMAIN Api /\ Api[fn] = HashApi[fn]
      BY ApiIsItsTables, CryptoApiIsItsTables
    <2>6. \A fn \in DOMAIN HashApi : Agrees(fn, JsCrypto[fn])
      BY <2>5, HashWrappers DEF Agrees
    <2> QED
      BY <2>2, <2>4, <2>6, WrapperNames
  <1>7. \A fn \in DOMAIN JsZip : Agrees(fn, JsZip[fn])
    <2>1. \A fn \in DOMAIN ZipApi : fn \in DOMAIN Api /\ Api[fn] = ZipApi[fn]
      BY ApiIsItsTables, ZApiIsItsTables
    <2>2. \A fn \in DOMAIN ZipApi : Agrees(fn, JsZip[fn])
      BY <2>1, ZipWrappers DEF Agrees
    <2>3. \A fn \in DOMAIN UnzipApi : fn \in DOMAIN Api /\ Api[fn] = UnzipApi[fn]
      BY ApiIsItsTables, ZApiIsItsTables
    <2>4. \A fn \in DOMAIN UnzipApi : Agrees(fn, JsZip[fn])
      BY <2>3, UnzipWrappers DEF Agrees
    <2> QED
      BY <2>2, <2>4, WrapperNames
  <1>8. \A fn \in DOMAIN JsZBytes : Agrees(fn, JsZBytes[fn])
    <2>1. \A fn \in DOMAIN ZBytesApi : fn \in DOMAIN Api /\ Api[fn] = ZBytesApi[fn]
      BY ApiIsItsTables, ZApiIsItsTables
    <2>2. \A fn \in DOMAIN ZBytesApi : Agrees(fn, JsZBytes[fn])
      BY <2>1, ZBytesWrappers DEF Agrees
    <2> QED
      BY <2>2, WrapperNames
  <1> QED
    BY <1>1, <1>2, <1>3, <1>4, <1>5, <1>6, <1>7, <1>8, JsIsItsTables

\* The wrappers of Lua that call something else, or call it without its text.
LuaOdd == {"get_version", "root_path", "z_bytes_zip"}

\* Every other wrapper of scripts/Lua/DynXX.lua agrees with the function it calls,
\* and what the three others call.
LEMMA LuaWrappers ==
  \A fn \in DOMAIN Lua :
    /\ fn \notin LuaOdd => Agrees(fn, Lua[fn]) /\ fn # "call_platform"
    /\ fn \in {"get_version", "root_path"} => Lua[fn] = Wrap("error", None, "raw")
    /\ fn = "z_bytes_zip" =>
         /\ Lua[fn].calls = "z_bytes_unzip"
         /\ TypesAgree(Api["z_bytes_unzip"], Lua[fn])
  <1>1. \A fn \in DOMAIN LuaMisc :
          /\ fn \in DOMAIN JsMisc /\ fn # "call_platform"
          /\ fn \in {"get_version", "root_path"} => LuaMisc[fn] = Wrap("error", None, "raw")
          /\ fn \notin {"get_version", "root_path"} => LuaMisc[fn] = JsMisc[fn]
    BY DEF LuaMisc
  <1>2. \A fn \in DOMAIN JsMisc : Agrees(fn, JsMisc[fn])
    BY JsWrappers, JsIsItsTables
  <1>3. \A fn \in DOMAIN LuaHttp : Agrees(fn, LuaHttp[fn])
    <2>1. \A fn \in DOMAIN HttpApi : fn \in DOMAIN Api /\ Api[fn] = HttpApi[fn]
      BY ApiIsItsTables
    <2> QED
      BY <2>1, LuaHttpWrappers, WrapperNames DEF Agrees
  <1>4. \A fn \in DOMAIN LuaSqlite : Agrees(fn, LuaSqlite[fn])
    BY JsWrappers, JsIsItsTables, LuaNames
  <1>5. \A fn \in DOMAIN LuaKv : Agrees(fn, LuaKv[fn])
    BY JsWrappers, JsIsItsTables, LuaNames
  <1>6. \A fn \in DOMAIN LuaCoding : Agrees(fn, LuaCoding[fn])
    BY JsWrappers, JsIsItsTables, LuaNames
  <1>7. \A fn \in DOMAIN LuaCrypto : Agrees(fn, LuaCrypto[fn])
    BY JsWrappers, JsIsItsTables, LuaNames
  <1>8. \A fn \in DOMAIN LuaZip : Agrees(fn, LuaZip[fn])
    BY JsWrappers, JsIsItsTables, LuaNames
  <1>9. ZBytesApi["z_bytes_unzip"] = Api["z_bytes_unzip"] /\ "z_bytes_unzip" \in DOMAIN Api
    BY ApiIsItsTables, ZApiIsItsTables, FunctionNames
  <1>10. /\ LuaZBytes["z_bytes_zip"].calls = "z_bytes_unzip"
         /\ TypesAgree(ZBytesApi["z_bytes_unzip"], LuaZBytes["z_bytes_zip"])
    <2>1. LuaZBytes["z_bytes_zip"].calls = "z_bytes_unzip"
      BY DEF LuaZBytes, Wrap
    <2>2. TypesAgree(ZBytesApi["z_bytes_unzip"], LuaZBytes["z_bytes_zip"])
      BY TakesOf DEF TypesAgree, ZBytesApi, Fn, Need, May, Number, Bytes, Params,
             LuaZBytes, Wrap, OfBytes, Both
    <2> QED
      BY <2>1, <2>2
  <1>11. Agrees("z_bytes_unzip", LuaZBytes["z_bytes_unzip"])
    <2> DEFINE wrap == LuaZBytes["z_bytes_unzip"]
    <2>1. wrap.calls = "z_bytes_unzip" /\ DOMAIN wrap.sends = {"inBytes", "bufferSize", "format"}
      BY DEF LuaZBytes, Wrap, OfBytes, Both
    <2>2. TypesAgree(ZBytesApi["z_bytes_unzip"], wrap)
      BY TakesOf DEF TypesAgree, ZBytesApi, Fn, Need, May, Number, Bytes, Params,
             LuaZBytes, Wrap, OfBytes, Both
    <2> HIDE DEF wrap
    <2>3. Params(ZBytesApi["z_bytes_unzip"]) = {Bytes("inBytes"), Number("bufferSize"), Number("format")}
      BY Stages DEF ZBytesApi
    <2>4. Needed(ZBytesApi["z_bytes_unzip"], wrap)
      BY <2>1, <2>3 DEF Needed, Bytes, Number, Need
    <2>5. DOMAIN wrap.sends \subseteq Keys(ZBytesApi["z_bytes_unzip"])
      BY <2>1, <2>3 DEF Keys, Bytes, Number, Need
    <2>6. Grouped(ZBytesApi["z_bytes_unzip"], wrap)
      BY DEF Grouped, ZBytesApi, Fn
    <2>7. Declared(ZBytesApi["z_bytes_unzip"])
      BY ZBytesWrappers, FunctionNames
    <2> QED
      BY <1>9, <2>1, <2>2, <2>4, <2>5, <2>6, <2>7 DEF Agrees, Complete, wrap
  <1> HIDE DEF LuaMisc
  <1> QED
    <2>1. \A fn \in DOMAIN LuaMisc : Lua[fn] = LuaMisc[fn] /\ fn # "z_bytes_zip"
      BY LuaIsItsTables, WrapperNames, FunctionNames
    <2>2. \A fn \in DOMAIN LuaHttp : Lua[fn] = LuaHttp[fn] /\ fn \notin LuaOdd \cup {"call_platform"}
      BY LuaIsItsTables, WrapperNames, FunctionNames DEF LuaOdd
    <2>3. \A fn \in DOMAIN LuaSqlite : Lua[fn] = LuaSqlite[fn] /\ fn \notin LuaOdd \cup {"call_platform"}
      BY LuaIsItsTables, WrapperNames, LuaNames, FunctionNames DEF LuaOdd
    <2>4. \A fn \in DOMAIN LuaKv : Lua[fn] = LuaKv[fn] /\ fn \notin LuaOdd \cup {"call_platform"}
      BY LuaIsItsTables, WrapperNames, LuaNames, FunctionNames DEF LuaOdd
    <2>5. \A fn \in DOMAIN LuaCoding : Lua[fn] = LuaCoding[fn] /\ fn \notin LuaOdd \cup {"call_platform"}
      BY LuaIsItsTables, WrapperNames, LuaNames, FunctionNames DEF LuaOdd
    <2>6. \A fn \in DOMAIN LuaCrypto : Lua[fn] = LuaCrypto[fn] /\ fn \notin LuaOdd \cup {"call_platform"}
      BY LuaIsItsTables, WrapperNames, LuaNames, FunctionNames DEF LuaOdd
    <2>7. \A fn \in DOMAIN LuaZip : Lua[fn] = LuaZip[fn] /\ fn \notin LuaOdd \cup {"call_platform"}
      BY LuaIsItsTables, WrapperNames, LuaNames, FunctionNames DEF LuaOdd
    <2>8. /\ Lua["z_bytes_zip"] = LuaZBytes["z_bytes_zip"]
          /\ Lua["z_bytes_unzip"] = LuaZBytes["z_bytes_unzip"]
          /\ DOMAIN LuaZBytes = {"z_bytes_zip", "z_bytes_unzip"}
      BY LuaIsItsTables, WrapperNames, FunctionNames
    <2>9. \A fn \in DOMAIN LuaMisc :
            /\ fn \notin LuaOdd => Agrees(fn, Lua[fn]) /\ fn # "call_platform"
            /\ fn \in {"get_version", "root_path"} => Lua[fn] = Wrap("error", None, "raw")
      BY <1>1, <1>2, <2>1 DEF LuaOdd
    <2>10. SUFFICES ASSUME NEW fn \in DOMAIN Lua
                    PROVE  /\ fn \notin LuaOdd => Agrees(fn, Lua[fn]) /\ fn # "call_platform"
                           /\ fn \in {"get_version", "root_path"} => Lua[fn] = Wrap("error", None, "raw")
                           /\ fn = "z_bytes_zip" =>
                                /\ Lua[fn].calls = "z_bytes_unzip"
                                /\ TypesAgree(Api["z_bytes_unzip"], Lua[fn])
      OBVIOUS
    <2>11. CASE fn \in DOMAIN LuaMisc
      BY <2>9, <2>1, <2>11
    <2>12. CASE fn \in DOMAIN LuaZBytes
      BY <1>9, <1>10, <1>11, <2>8, <2>12 DEF LuaOdd
    <2>13. CASE fn \in DOMAIN LuaHttp \cup DOMAIN LuaSqlite \cup DOMAIN LuaKv
      BY <1>3, <1>4, <1>5, <2>2, <2>3, <2>4, <2>13 DEF LuaOdd
    <2>14. CASE fn \in DOMAIN LuaCoding \cup DOMAIN LuaCrypto \cup DOMAIN LuaZip
      BY <1>6, <1>7, <1>8, <2>5, <2>6, <2>7, <2>14 DEF LuaOdd
    <2> QED
      BY <2>11, <2>12, <2>13, <2>14, LuaIsItsTables

-----------------------------------------------------------------------------
(* How one call ends                                                        *)

\* The nodes that a wrapper writes for arguments of each type.
Written(wrap, json) ==
  /\ DOMAIN json = DOMAIN wrap.sends
  /\ \A key \in DOMAIN json :
       /\ wrap.sends[key] = "string" => json[key] \in {"text", "empty"}
       /\ wrap.sends[key] \in {"number", "option", "fixed"} =>
            json[key] \in {"number", "null", "absent"}
       /\ wrap.sends[key] = "array" => json[key] \in {"array", "nothing"}
       /\ wrap.sends[key] \in Handles => json[key] \in {"none", "empty", "address"}

\* A set of numbers that is not empty has a least member.
LEMMA MinIsMember ==
  ASSUME NEW S \in SUBSET Nat, S # {}
  PROVE  Min(S) \in S
  <1>1. PICK x \in S : \A y \in S : <<y, x>> \notin OpToRel(<, Nat)
    BY NatLessThanWellFounded, WFMin
  <1>2. \A y \in S : ~(y < x)
    BY <1>1, Zenon DEF OpToRel
  <1>3. \A y \in S : x <= y
    BY <1>2
  <1> QED
    BY <1>3 DEF Min

\* An exception comes from a parameter: the stage a call ends in is one of its stages.
LEMMA EndsAmongStages ==
  ASSUME NEW f, NEW json, Declared(f), Outcome(f, json) = "threw"
  PROVE  \E p \in Params(f) : Throws(p, NodeOf(json, p.key))
  <1> DEFINE ends == {i \in DOMAIN f.stages : ThrowsAt(f, i, json) \/ RejectsAt(f, i, json)}
  <1>1. ends # {} /\ ThrowsAt(f, Min(ends), json)
    BY DEF Outcome
  <1>2. Min(ends) \in ends
    <2>1. ends \in SUBSET Nat
      BY DEF Declared
    <2> HIDE DEF ends
    <2> QED
      BY <1>1, <2>1, MinIsMember
  <1> QED
    BY <1>1, <1>2 DEF ThrowsAt, Params

\* A call whose parameters are given, where they must be, and readable gets through.
LEMMA CalledIfGiven ==
  ASSUME NEW f, NEW json,
         \A p \in Params(f) : ~Throws(p, NodeOf(json, p.key)),
         \A p \in Params(f) : p.must => Given(p, NodeOf(json, p.key)),
         ~Torn(f, json)
  PROVE  Outcome(f, json) = "called"
  <1>1. \A i \in DOMAIN f.stages : f.stages[i] \subseteq Params(f)
    BY DEF Params
  <1>2. \A i \in DOMAIN f.stages : ~ThrowsAt(f, i, json) /\ ~RejectsAt(f, i, json)
    BY <1>1 DEF ThrowsAt, RejectsAt
  <1> QED
    BY <1>2 DEF Outcome

\* A call without a parameter it must have does not get through.
LEMMA NotCalledIfMissing ==
  ASSUME NEW f, NEW json, NEW p \in Params(f), p.must, ~Given(p, NodeOf(json, p.key))
  PROVE  Outcome(f, json) # "called"
  <1>1. PICK i \in DOMAIN f.stages : p \in f.stages[i]
    BY DEF Params
  <1>2. RejectsAt(f, i, json)
    BY <1>1 DEF RejectsAt
  <1> QED
    BY <1>2 DEF Outcome

\* A call ends in one of three ways.
LEMMA Outcomes ==
  \A f, json : Outcome(f, json) \in {"called", "threw", "default"}
  BY DEF Outcome

\* A node that is not there is no parameter, and throws nothing.
LEMMA AbsentIsNotGiven ==
  \A p : ~Throws(p, "absent") /\
         (p.as \in {"text", "number", "pointer", "array"} => ~Given(p, "absent"))
  BY DEF Throws, Given, Pointer, ReadString

\* The node a function finds under a parameter's key is of the parameter's type.
LEMMA TypedNodes ==
  ASSUME NEW f, NEW wrap, NEW json, Declared(f), TypesAgree(f, wrap), Written(wrap, json),
         NEW p \in Params(f), p.key \in DOMAIN json
  PROVE  /\ NodeOf(json, p.key) = json[p.key]
         /\ json[p.key] \in Image(json)
         /\ p.as = "text" => json[p.key] \in {"text", "empty"}
         /\ p.as = "number" => json[p.key] \in {"number", "null", "absent"}
         /\ p.as = "array" => json[p.key] \in {"array", "nothing"}
         /\ p.as = "pointer" => /\ wrap.sends[p.key] \in Handles
                                /\ json[p.key] \in {"none", "empty", "address"}
  <1>1. wrap.sends[p.key] \in Takes(p.as)
    BY DEF TypesAgree, Written
  <1> QED
    BY <1>1 DEF Written, Takes, NodeOf, Image

\* If the layers agree about types, only a null throws.
LEMMA ThrowsOnNull ==
  ASSUME NEW f, NEW wrap, NEW json, Declared(f), TypesAgree(f, wrap), Written(wrap, json),
         Outcome(f, json) = "threw"
  PROVE  "null" \in Image(json)
  <1>1. PICK p \in Params(f) : Throws(p, NodeOf(json, p.key))
    BY EndsAmongStages
  <1>2. p.key \in DOMAIN json
    BY <1>1, AbsentIsNotGiven DEF NodeOf
  <1>3. json[p.key] \in {"number", "null", "absent"} /\ json[p.key] \in Image(json)
    BY <1>1, <1>2, TypedNodes DEF Throws
  <1> QED
    BY <1>1, <1>2, <1>3, TypedNodes DEF Throws, ReadNumber

\* Of keys that are given together all are given or none.
LEMMA NotTorn ==
  ASSUME NEW f, NEW wrap, NEW json, Declared(f), Complete(f, wrap),
         DOMAIN json = DOMAIN wrap.sends,
         \A p \in Params(f) : p.key \in DOMAIN json => Given(p, NodeOf(json, p.key))
  PROVE  ~Torn(f, json)
  <1> SUFFICES ASSUME NEW set \in f.together, NEW k \in set, NEW l \in set,
                      Given((CHOOSE p \in Params(f) : p.key = k), NodeOf(json, k)),
                      ~Given((CHOOSE p \in Params(f) : p.key = l), NodeOf(json, l))
               PROVE  FALSE
    BY DEF Torn
  <1>1. k \in Keys(f) /\ l \in Keys(f)
    BY DEF Complete, Grouped
  <1>2. PICK pk \in Params(f) : pk = (CHOOSE p \in Params(f) : p.key = k) /\ pk.key = k
    BY <1>1 DEF Keys
  <1>3. PICK pl \in Params(f) : pl = (CHOOSE p \in Params(f) : p.key = l) /\ pl.key = l
    BY <1>1 DEF Keys
  <1>4. l \notin DOMAIN json
    BY <1>3
  <1>5. k \notin DOMAIN json
    BY <1>4 DEF Complete, Grouped
  <1>6. ~Given(pk, NodeOf(json, k))
    BY <1>2, <1>5, AbsentIsNotGiven DEF NodeOf, Declared
  <1> QED
    BY <1>2, <1>6

\* If the layers agree, a call with all its arguments gets through with all of them.
LEMMA AllGivenArrives ==
  ASSUME NEW f, NEW wrap, NEW json, Declared(f), TypesAgree(f, wrap), Complete(f, wrap),
         Written(wrap, json), AllGiven(json)
  PROVE  Outcome(f, json) = "called" /\ DOMAIN json \ Keys(f) = {}
  <1>1. \A p \in Params(f) : p.key \in DOMAIN json =>
          /\ Given(p, NodeOf(json, p.key))
          /\ ~Throws(p, NodeOf(json, p.key))
    <2> SUFFICES ASSUME NEW p \in Params(f), p.key \in DOMAIN json
                 PROVE  /\ Given(p, NodeOf(json, p.key))
                        /\ ~Throws(p, NodeOf(json, p.key))
      OBVIOUS
    <2>1. NodeOf(json, p.key) \in {"number", "text", "address", "array", "bool"}
      BY TypedNodes DEF AllGiven
    <2> DEFINE node == NodeOf(json, p.key)
    <2>2. /\ p.as = "text" => node = "text"
          /\ p.as = "number" => node = "number"
          /\ p.as = "array" => node = "array"
          /\ p.as = "pointer" => node = "address"
      BY <2>1, TypedNodes
    <2> HIDE DEF node
    <2>3. p.as \in {"text", "number", "pointer", "array"}
      BY DEF Declared
    <2>4. Given(p, node) /\ ~Throws(p, node)
      BY <2>2, <2>3 DEF Given, Throws, Pointer, ReadString, ReadNumber
    <2> QED
      BY <2>4 DEF node
  <1>2. \A p \in Params(f) : p.key \notin DOMAIN json =>
          ~p.must /\ ~Throws(p, NodeOf(json, p.key))
    BY AbsentIsNotGiven DEF NodeOf, Complete, Needed, Written
  <1>3. ~Torn(f, json)
    BY <1>1, NotTorn DEF Written
  <1>4. Outcome(f, json) = "called"
    BY <1>1, <1>2, <1>3, CalledIfGiven
  <1> QED
    BY <1>4 DEF Complete, Written

\* The stand-in for a call without its text is no function.
LEMMA NoErrorFunction == "error" \notin DOMAIN Api
  BY ApiIsItsTables, StoreApiIsItsTables, CryptoApiIsItsTables, ZApiIsItsTables, FunctionNames

\* The functions that make or delete an object.
OpensOrDeletes == DOMAIN Opens \cup DOMAIN Deletes

\* No function makes and deletes an object, and none of them is one of Lua's odd ones.
LEMMA OpensAndDeletes ==
  /\ OpensOrDeletes \cap (LuaOdd \cup {"error", "z_bytes_unzip"}) = {}
  /\ DOMAIN Opens \cap DOMAIN Deletes = {}
  /\ \A fn \in DOMAIN Opens : Opens[fn] \in Handles
  /\ \A fn \in DOMAIN Deletes : Deletes[fn] \in Handles
  BY DEF OpensOrDeletes, Opens, Deletes, LuaOdd, Handles

\* The libraries of both engines and the functions they call: what the calls rest on.
LEMMA LayersAgree ==
  ASSUME lang \in {"js", "lua"}, NEW fn \in DOMAIN Lib(lang)
  PROVE  LET wrap == Lib(lang)[fn]
             f == Api[wrap.calls]
         IN  /\ ~Mute(fn) =>
                  Reaches(wrap) /\ wrap.calls = fn /\ Declared(f) /\ TypesAgree(f, wrap) /\ Complete(f, wrap)
             /\ Reaches(wrap) /\ fn # "crypto_rsa_gen_key" => Declared(f) /\ TypesAgree(f, wrap)
             /\ fn = "crypto_rsa_gen_key" => wrap.calls = fn
             /\ fn \in OpensOrDeletes \/ wrap.calls \in OpensOrDeletes => wrap.calls = fn
  <1> DEFINE wrap == Lib(lang)[fn]
             f == Api[wrap.calls]
  <1>1. CASE lang = "js"
    <2>1. Agrees(fn, wrap) /\ Reaches(wrap)
      BY <1>1, JsWrappers DEF Lib, Reaches, JsBound, Agrees
    <2>2. ~Mute(fn) => fn \notin Rsa
      BY DEF Mute
    <2> QED
      BY <2>1, <2>2 DEF Agrees, Rsa
  <1>2. CASE lang = "lua" /\ fn \notin LuaOdd
    <2>1. Agrees(fn, wrap) /\ Reaches(wrap)
      BY <1>2, LuaWrappers DEF Lib, Reaches, LuaBound, Agrees
    <2>2. ~Mute(fn) => fn \notin Rsa
      BY DEF Mute
    <2> QED
      BY <2>1, <2>2 DEF Agrees, Rsa
  <1>3. CASE lang = "lua" /\ fn \in {"get_version", "root_path"}
    <2>1. wrap.calls = "error"
      BY <1>3, LuaWrappers DEF Lib, Wrap
    <2>2. ~Reaches(wrap)
      BY <1>3, <2>1, NoErrorFunction DEF Reaches, LuaBound
    <2>3. Mute(fn)
      BY <1>3 DEF Mute
    <2> QED
      BY <1>3, <2>1, <2>2, <2>3, OpensAndDeletes DEF LuaOdd
  <1>4. CASE lang = "lua" /\ fn = "z_bytes_zip"
    <2>1. /\ wrap.calls = "z_bytes_unzip"
          /\ TypesAgree(f, wrap)
      BY <1>4, LuaWrappers DEF Lib
    <2>2. Declared(Api["z_bytes_unzip"])
      BY JsWrappers, JsIsItsTables, WrapperNames, FunctionNames DEF Agrees
    <2>3. Mute(fn)
      BY <1>4 DEF Mute
    <2> QED
      BY <1>4, <2>1, <2>2, <2>3, OpensAndDeletes DEF LuaOdd
  <1> QED
    BY <1>1, <1>2, <1>3, <1>4 DEF LuaOdd

\* The one function whose types disagree takes no pointer.
LEMMA GenKeyHasNoPointer ==
  \A p \in Params(Api["crypto_rsa_gen_key"]) : p.as # "pointer"
  <1>1. Api["crypto_rsa_gen_key"] = RsaApi["crypto_rsa_gen_key"]
    BY ApiIsItsTables, CryptoApiIsItsTables, FunctionNames
  <1>2. \A p \in Params(RsaApi["crypto_rsa_gen_key"]) : p.as # "pointer"
    BY DEF RsaApi, Fn, Params, Text, Number, Need
  <1> QED
    BY <1>1, <1>2

\* What becomes of a call, whatever its arguments are.
LEMMA CallFacts ==
  ASSUME lang \in {"js", "lua"}, NEW fn \in DOMAIN Lib(lang), NEW json,
         Written(Lib(lang)[fn], json)
  PROVE  LET c == Called(fn, Lib(lang)[fn], json)
         IN  /\ c.fn = fn /\ c.sent = json
             /\ c.outcome \in {"called", "default", "threw", "error"}
             /\ AllGiven(json) /\ ~Mute(fn) => c.outcome = "called" /\ c.ignored = {}
             /\ c.outcome = "threw" => fn = "crypto_rsa_gen_key" \/ "null" \in Image(json)
  <1> DEFINE wrap == Lib(lang)[fn]
             f == Api[wrap.calls]
             c == Called(fn, wrap, json)
  <1>1. /\ c.fn = fn /\ c.sent = json
        /\ c.outcome = IF Reaches(wrap) THEN Outcome(f, json) ELSE "error"
        /\ c.ignored = IF Reaches(wrap) THEN DOMAIN json \ Keys(f) ELSE {}
    BY DEF Called
  <1>2. /\ ~Mute(fn) => Reaches(wrap) /\ Declared(f) /\ TypesAgree(f, wrap) /\ Complete(f, wrap)
        /\ Reaches(wrap) /\ fn # "crypto_rsa_gen_key" => Declared(f) /\ TypesAgree(f, wrap)
    BY LayersAgree
  <1>3. Written(wrap, json)
    OBVIOUS
  <1> HIDE DEF c, f, wrap
  <1>4. c.outcome \in {"called", "default", "threw", "error"}
    BY <1>1, Outcomes
  <1>5. AllGiven(json) /\ ~Mute(fn) => c.outcome = "called" /\ c.ignored = {}
    BY <1>1, <1>2, <1>3, AllGivenArrives
  <1>6. c.outcome = "threw" => fn = "crypto_rsa_gen_key" \/ "null" \in Image(json)
    BY <1>1, <1>2, <1>3, ThrowsOnNull
  <1> QED
    BY <1>1, <1>4, <1>5, <1>6 DEF c, wrap

\* An object that a call touches is one whose handle stands in its text.
LEMMA TouchedFacts ==
  ASSUME lang \in {"js", "lua"}, NEW fn \in DOMAIN Lib(lang), NEW json,
         Written(Lib(lang)[fn], json), Reaches(Lib(lang)[fn]),
         NEW o \in Touched(Lib(lang)[fn], json)
  PROVE  \E key \in DOMAIN json :
           LET h == Lib(lang)[fn].sends[key]
           IN  /\ h \in Handles
               /\ o = IF json[key] = "address" THEN object[h] ELSE "wild"
  <1> DEFINE wrap == Lib(lang)[fn]
             f == Api[wrap.calls]
  <1>1. PICK q \in Params(f) :
          /\ q.as = "pointer"
          /\ Pointer(NodeOf(json, q.key)) # "null"
          /\ o = IF Pointer(NodeOf(json, q.key)) = "object" THEN object[wrap.sends[q.key]]
                 ELSE Pointer(NodeOf(json, q.key))
    BY DEF Touched, PointersOf
  <1>2. fn # "crypto_rsa_gen_key" /\ Declared(f) /\ TypesAgree(f, wrap)
    BY <1>1, GenKeyHasNoPointer, LayersAgree
  <1>3. Written(wrap, json)
    OBVIOUS
  <1> HIDE DEF f
  <1>4. q.key \in DOMAIN json
    BY <1>1 DEF NodeOf, Pointer, ReadString
  <1>5. /\ NodeOf(json, q.key) = json[q.key]
        /\ wrap.sends[q.key] \in Handles
        /\ json[q.key] \in {"none", "empty", "address"}
    BY <1>1, <1>2, <1>3, <1>4, TypedNodes
  <1>6. Pointer(json[q.key]) = IF json[q.key] = "address" THEN "object" ELSE "wild"
    BY <1>5 DEF Pointer, ReadString
  <1> QED
    BY <1>1, <1>4, <1>5, <1>6

-----------------------------------------------------------------------------
(* What a call does to handles and objects                                  *)

\* The texts a script holds for a handle, and the states of the object behind it.
HandleTexts == {"none", "empty", "address"}
ObjectStates == {"none", "live", "deleted"}

\* The script holds a text for every kind of handle, and each object has a state.
TypesOfHandles ==
  held \in [Handles -> HandleTexts] /\ object \in [Handles -> ObjectStates]

\* The texts of the model are of the nodes that the types say, and handles are the
\* texts the script holds.
LEMMA TextsAreWritten ==
  ASSUME TypesOfHandles, NEW wrap, NEW json \in Texts(wrap)
  PROVE  /\ Written(wrap, json)
         /\ \A key \in DOMAIN json :
              wrap.sends[key] \in Handles => json[key] = held[wrap.sends[key]]
  <1>1. PICK hollow \in SUBSET {k \in DOMAIN wrap.sends : MayBeHollow(wrap.sends[k])},
             out \in SUBSET {k \in DOMAIN wrap.sends : wrap.sends[k] = "option"} :
          json = TextOf(wrap, hollow, out)
    BY DEF Texts
  <1>2. DOMAIN json = DOMAIN wrap.sends
    BY <1>1 DEF TextOf
  <1> SUFFICES ASSUME NEW key \in DOMAIN json
               PROVE  /\ wrap.sends[key] = "string" => json[key] \in {"text", "empty"}
                      /\ wrap.sends[key] \in {"number", "option", "fixed"} =>
                           json[key] \in {"number", "null", "absent"}
                      /\ wrap.sends[key] = "array" => json[key] \in {"array", "nothing"}
                      /\ wrap.sends[key] \in Handles =>
                           /\ json[key] \in {"none", "empty", "address"}
                           /\ json[key] = held[wrap.sends[key]]
    BY <1>2 DEF Written
  <1> DEFINE type == wrap.sends[key]
  <1>3. /\ key \in out => type = "option"
        /\ key \in hollow => type \in {"string", "number", "option", "array"}
        /\ type \in Handles => key \notin out /\ key \notin hollow
    BY <1>1 DEF MayBeHollow, Hollow, Handles
  <1>4. /\ type \in Handles => json[key] = held[type]
        /\ type \notin Handles /\ key \in out => json[key] = "absent"
        /\ type \notin Handles /\ key \notin out /\ key \in hollow => json[key] = Hollow[type]
        /\ type \notin Handles /\ key \notin out /\ key \notin hollow => json[key] = Full[type]
    <2>1. json[key] = CASE type \in Handles -> held[type]
                        [] key \in out -> "absent"
                        [] key \in hollow \ out -> Hollow[type]
                        [] OTHER -> Full[type]
      BY <1>1, <1>2 DEF TextOf
    <2> HIDE DEF type
    <2> QED
      BY <1>3, <2>1
  <1> HIDE DEF type
  <1>5. /\ type = "string" => json[key] \in {"text", "empty"}
        /\ type \in {"number", "option", "fixed"} => json[key] \in {"number", "null", "absent"}
        /\ type = "array" => json[key] \in {"array", "nothing"}
    BY <1>3, <1>4 DEF Hollow, Full, Handles
  <1>6. type \in Handles => json[key] \in {"none", "empty", "address"} /\ json[key] = held[type]
    BY <1>4 DEF TypesOfHandles, HandleTexts
  <1> QED
    BY <1>5, <1>6 DEF type

\* A call changes the handle and the object of its own kind and no other; what it
\* opened is live, and what it closed the script forgets.
LEMMA EffectFacts ==
  ASSUME lang \in {"js", "lua"}, NEW fn \in DOMAIN Lib(lang), NEW json,
         TypesOfHandles, Effects(fn, Lib(lang)[fn], json)
  PROVE  /\ TypesOfHandles'
         /\ \A k \in Handles :
              ~(fn \in DOMAIN Opens /\ k = Opens[fn]) /\ ~(fn \in DOMAIN Deletes /\ k = Deletes[fn]) =>
                held'[k] = held[k] /\ object'[k] = object[k]
         /\ \A k \in Handles : object[k] # "none" => object'[k] # "none"
         /\ fn \in DOMAIN Opens =>
              /\ held'[Opens[fn]] = "address" => object'[Opens[fn]] = "live"
              /\ held'[Opens[fn]] # "none"
              /\ object'[Opens[fn]] = "live" /\ object[Opens[fn]] # "live" =>
                   held'[Opens[fn]] = "address"
         /\ fn \in DOMAIN Deletes =>
              /\ held'[Deletes[fn]] = "none"
              /\ object'[Deletes[fn]] \in {object[Deletes[fn]], "deleted"}
              /\ /\ Reaches(Lib(lang)[fn]) /\ Outcome(Api[fn], json) = "called"
                 /\ "address" \in Image(json)
                 => object'[Deletes[fn]] = "deleted"
  <1> DEFINE wrap == Lib(lang)[fn]
             runs == Reaches(wrap) /\ Outcome(Api[wrap.calls], json) = "called"
             given == "address" \in Image(json)
  <1>1. fn \in OpensOrDeletes \/ wrap.calls \in OpensOrDeletes => wrap.calls = fn
    BY LayersAgree
  <1>2. PICK works \in BOOLEAN :
          /\ works => \E k \in Handles : runs /\ wrap.calls \in DOMAIN Opens /\ k = Opens[wrap.calls]
          /\ object' = [k \in Handles |->
               CASE (runs /\ wrap.calls \in DOMAIN Opens /\ k = Opens[wrap.calls]) /\ works -> "live"
                 [] runs /\ wrap.calls \in DOMAIN Deletes /\ k = Deletes[wrap.calls] /\ given -> "deleted"
                 [] OTHER -> object[k]]
          /\ held' = [k \in Handles |->
               CASE fn \in DOMAIN Opens /\ k = Opens[fn] -> IF works THEN "address" ELSE "empty"
                 [] fn \in DOMAIN Deletes /\ k = Deletes[fn] -> "none"
                 [] OTHER -> held[k]]
    BY DEF Effects
  <1> HIDE DEF wrap, runs, given
  <1>3. /\ wrap.calls \in DOMAIN Opens => wrap.calls = fn
        /\ wrap.calls \in DOMAIN Deletes => wrap.calls = fn
        /\ fn \in DOMAIN Opens => wrap.calls = fn /\ fn \notin DOMAIN Deletes /\ Opens[fn] \in Handles
        /\ fn \in DOMAIN Deletes => wrap.calls = fn /\ fn \notin DOMAIN Opens /\ Deletes[fn] \in Handles
    BY <1>1, OpensAndDeletes DEF OpensOrDeletes
  <1>4. TypesOfHandles'
    BY <1>2 DEF TypesOfHandles, HandleTexts, ObjectStates
  <1>5. \A k \in Handles :
          ~(fn \in DOMAIN Opens /\ k = Opens[fn]) /\ ~(fn \in DOMAIN Deletes /\ k = Deletes[fn]) =>
            held'[k] = held[k] /\ object'[k] = object[k]
    BY <1>2, <1>3
  <1>6. fn \in DOMAIN Opens =>
          /\ held'[Opens[fn]] = "address" => object'[Opens[fn]] = "live"
          /\ held'[Opens[fn]] # "none"
          /\ object'[Opens[fn]] = "live" /\ object[Opens[fn]] # "live" => held'[Opens[fn]] = "address"
    BY <1>2, <1>3
  <1>7. fn \in DOMAIN Deletes =>
          /\ held'[Deletes[fn]] = "none"
          /\ object'[Deletes[fn]] \in {object[Deletes[fn]], "deleted"}
          /\ runs /\ given => object'[Deletes[fn]] = "deleted"
    BY <1>2, <1>3
  <1>8. Reaches(wrap) /\ Outcome(Api[fn], json) = "called" /\ fn \in DOMAIN Deletes => runs
    BY <1>3 DEF runs
  <1>9. \A k \in Handles : object[k] # "none" => object'[k] # "none"
    BY <1>2
  <1> QED
    BY <1>4, <1>5, <1>6, <1>7, <1>8, <1>9 DEF wrap, given

-----------------------------------------------------------------------------
(* The invariant of the calls                                               *)

\* A handle whose text is an address is that of a live object.
HandleInv == \A k \in Handles : held[k] = "address" => object[k] = "live"

\* The handles of a text are empty, or the addresses of objects that once were made.
Addressed(fn, json) ==
  \A key \in DOMAIN json :
    LET h == Lib(lang)[fn].sends[key]
    IN  h \in Handles =>
          json[key] \in {"empty", "address"} /\ (json[key] = "address" => object[h] # "none")

\* A call runs on a worker in JS only, and with such a text: the object behind an
\* address may have been deleted, but it was there when the call was submitted.
JobInv ==
  job.phase # "none" =>
    /\ lang = "js" /\ job.fn \in Async
    /\ job.fn \in Functions[topic] \cap DOMAIN Lib(lang)
    /\ Written(Lib(lang)[job.fn], job.json)
    /\ Addressed(job.fn, job.json)

\* A stream of the library has the only object of its session, until it released it.
StreamInv ==
  /\ at # "out" => topic = "stream" /\ lang = "js"
  /\ topic = "stream" /\ at = "out" =>
       \A k \in Handles : held[k] = "none" /\ object[k] = "none"
  /\ at \in DOMAIN Following =>
       \E z \in {"zip", "unzip"} :
         /\ held[z] # "none"
         /\ object[z] = "live" => held[z] = "address"
         /\ \A k \in Handles \ {z} : held[k] = "none" /\ object[k] = "none"
  /\ StreamReleases

\* What the properties say of the last call.
LastInv ==
  /\ last.outcome \in {"none", "called", "default", "threw", "error", "failed"}
  /\ last.touched \subseteq {"none", "live", "deleted", "wild"}
  /\ ArgumentsArrive
  /\ ThrowsOnlyOnNonNumbers
  /\ DeadOnlyIfEmptyOrClosed

\* The types of what a session consists of.
SessionInv ==
  /\ lang \in Langs /\ topic \in Topics
  /\ TypesOfHandles
  /\ job.phase \in {"none", "queued", "running"}
  /\ at \in {"out", "over", "thrown"} \cup DOMAIN Following

\* The types of the script's data.
ConvertedInv == data.is \in {"string", "bytes"} /\ trail \in 0 .. MaxTrail

\* The inductive invariant of the calls.
CallInv == SessionInv /\ HandleInv /\ JobInv /\ StreamInv /\ LastInv

\* The addresses in a text are those the script still holds.
StillHeld(fn, json) ==
  \A key \in DOMAIN json :
    LET h == Lib(lang)[fn].sends[key]
    IN  h \in Handles /\ json[key] = "address" => held[h] = "address"

\* The engines are those whose libraries are modelled.
LEMMA EngineAssumed == SessionInv => lang \in {"js", "lua"}
  BY ScriptAssumption DEF SessionInv

\* A call leaves LastInv true whose handles are addresses or empty, and still held
\* unless it runs on a worker.
LEMMA LastInvAfter ==
  ASSUME SessionInv, HandleInv, NEW fn \in DOMAIN Lib(lang), NEW json,
         Written(Lib(lang)[fn], json),
         Addressed(fn, json),
         (lang = "js" /\ fn \in Async) \/ StillHeld(fn, json),
         last' = Called(fn, Lib(lang)[fn], json), lang' = lang
  PROVE  LastInv'
  <1> DEFINE wrap == Lib(lang)[fn]
             c == Called(fn, wrap, json)
  <1>1. lang \in {"js", "lua"}
    BY EngineAssumed
  <1>2. /\ c.fn = fn /\ c.sent = json
        /\ c.outcome \in {"called", "default", "threw", "error"}
        /\ AllGiven(json) /\ ~Mute(fn) => c.outcome = "called" /\ c.ignored = {}
        /\ c.outcome = "threw" => fn = "crypto_rsa_gen_key" \/ "null" \in Image(json)
    BY <1>1, CallFacts
  <1>3. c.touched = IF Reaches(wrap) THEN Touched(wrap, json) ELSE {}
    BY DEF Called
  <1>4. ASSUME NEW o \in c.touched
        PROVE  /\ o \in {"live", "deleted", "wild"}
               /\ o = "wild" => "empty" \in Image(json)
               /\ o = "deleted" => lang = "js" /\ fn \in Async
    <2>1. PICK key \in DOMAIN json :
            /\ wrap.sends[key] \in Handles
            /\ o = IF json[key] = "address" THEN object[wrap.sends[key]] ELSE "wild"
      BY <1>1, <1>3, <1>4, TouchedFacts
    <2>2. object[wrap.sends[key]] \in {"none", "live", "deleted"}
      BY <2>1 DEF SessionInv, TypesOfHandles, ObjectStates
    <2>3. /\ json[key] \in {"empty", "address"}
          /\ json[key] = "address" => object[wrap.sends[key]] # "none"
      BY <2>1 DEF Addressed
    <2>4. json[key] = "address" /\ StillHeld(fn, json) => object[wrap.sends[key]] = "live"
      BY <2>1 DEF StillHeld, HandleInv
    <2>5. json[key] = "empty" => "empty" \in Image(json)
      BY <2>1 DEF Image
    <2> QED
      BY <2>1, <2>2, <2>3, <2>4, <2>5
  <1>5. last' = c
    OBVIOUS
  <1> HIDE DEF c, wrap
  <1>6. ArgumentsArrive'
    BY <1>2, <1>5 DEF ArgumentsArrive, AllGiven, Image, Mute
  <1>7. ThrowsOnlyOnNonNumbers'
    BY <1>2, <1>5 DEF ThrowsOnlyOnNonNumbers, Image
  <1>8. DeadOnlyIfEmptyOrClosed'
    BY <1>2, <1>4, <1>5 DEF DeadOnlyIfEmptyOrClosed, Image
  <1>9. last'.touched \subseteq {"none", "live", "deleted", "wild"}
    BY <1>4, <1>5
  <1> QED
    BY <1>2, <1>5, <1>6, <1>7, <1>8, <1>9 DEF LastInv

\* So does no call.
LEMMA NoCallIsFine ==
  ASSUME last' = NoCall
  PROVE  LastInv'
  BY DEF LastInv, NoCall, ArgumentsArrive, ThrowsOnlyOnNonNumbers, DeadOnlyIfEmptyOrClosed

\* The effects of a call leave HandleInv true.
LEMMA HandleInvAfter ==
  ASSUME SessionInv, HandleInv, NEW fn \in DOMAIN Lib(lang), NEW json,
         Effects(fn, Lib(lang)[fn], json)
  PROVE  HandleInv' /\ TypesOfHandles'
  <1>1. lang \in {"js", "lua"} /\ TypesOfHandles
    BY EngineAssumed DEF SessionInv
  <1>2. TypesOfHandles'
    BY <1>1, EffectFacts
  <1>3. \A k \in Handles :
          ~(fn \in DOMAIN Opens /\ k = Opens[fn]) /\ ~(fn \in DOMAIN Deletes /\ k = Deletes[fn]) =>
            held'[k] = held[k] /\ object'[k] = object[k]
    BY <1>1, EffectFacts
  <1>4. fn \in DOMAIN Opens => (held'[Opens[fn]] = "address" => object'[Opens[fn]] = "live")
    BY <1>1, EffectFacts
  <1>5. fn \in DOMAIN Deletes => held'[Deletes[fn]] = "none"
    BY <1>1, EffectFacts
  <1> QED
    BY <1>2, <1>3, <1>4, <1>5 DEF HandleInv

\* A script passes the texts it holds.
LEMMA PassedHandles ==
  ASSUME SessionInv, HandleInv, NEW fn \in DOMAIN Lib(lang), MayPass(Lib(lang)[fn]),
         NEW json \in Texts(Lib(lang)[fn])
  PROVE  /\ Written(Lib(lang)[fn], json)
         /\ Addressed(fn, json)
         /\ StillHeld(fn, json)
  <1>1. /\ Written(Lib(lang)[fn], json)
        /\ \A key \in DOMAIN json : Lib(lang)[fn].sends[key] \in Handles =>
             json[key] = held[Lib(lang)[fn].sends[key]]
    BY TextsAreWritten DEF SessionInv
  <1>2. \A k \in Handles : held[k] \in {"none", "empty", "address"}
    BY DEF SessionInv, TypesOfHandles, HandleTexts
  <1> QED
    BY <1>1, <1>2 DEF MayPass, Addressed, StillHeld, Written, HandleInv

\* In two topics the script makes no call of its own.
LEMMA NoFunctionsInStreams == Functions["stream"] = {} /\ Functions["data"] = {}
  BY DEF Functions

\* A call on the script's thread, which a worker's call may be under way beside.
LEMMA CallKeepsInv ==
  ASSUME CallInv, NEW fn \in DOMAIN Lib(lang), Call(fn)
  PROVE  CallInv'
  <1> DEFINE wrap == Lib(lang)[fn]
  <1>1. PICK json \in Texts(wrap) : last' = Called(fn, wrap, json) /\ Effects(fn, wrap, json)
    BY DEF Call
  <1>2. /\ fn \in Functions[topic] /\ MayCall(fn) /\ MayPass(wrap)
        /\ lang' = lang /\ topic' = topic /\ job' = job /\ at' = at
    BY DEF Call, session
  <1> HIDE DEF wrap
  <1>3. HandleInv' /\ TypesOfHandles'
    BY <1>1, HandleInvAfter DEF CallInv, wrap
  <1>4. Written(wrap, json) /\ Addressed(fn, json) /\ StillHeld(fn, json)
    BY <1>1, <1>2, PassedHandles DEF CallInv, wrap
  <1>5. LastInv'
    BY <1>1, <1>2, <1>4, LastInvAfter DEF CallInv, wrap
  <1>6. SessionInv'
    BY <1>2, <1>3 DEF CallInv, SessionInv
  <1>7. topic # "stream" /\ at = "out"
    BY <1>2, NoFunctionsInStreams DEF CallInv, StreamInv
  <1>8. StreamInv'
    BY <1>2, <1>7 DEF StreamInv, StreamReleases, Following
  <1>9. JobInv'
    <2> SUFFICES ASSUME job.phase # "none"
                 PROVE  JobInv'
      BY <1>2 DEF JobInv
    <2>1. \A k \in Handles : object[k] # "none" => object'[k] # "none"
      BY <1>1, EffectFacts, EngineAssumed DEF CallInv, SessionInv, wrap
    <2>2. Addressed(job.fn, job.json)'
      BY <1>2, <2>1 DEF CallInv, JobInv, Addressed
    <2> QED
      BY <1>2, <2>2 DEF CallInv, JobInv
  <1> QED
    BY <1>3, <1>5, <1>6, <1>8, <1>9 DEF CallInv

\* A call that becomes a task.
LEMMA SubmitKeepsInv ==
  ASSUME CallInv, NEW fn \in DOMAIN Lib(lang), Submit(fn)
  PROVE  CallInv'
  <1> DEFINE wrap == Lib(lang)[fn]
  <1>1. PICK json \in Texts(wrap) : job' = [phase |-> "queued", fn |-> fn, json |-> json]
    BY DEF Submit
  <1>2. /\ fn \in Functions[topic] /\ MayPass(wrap) /\ last' = NoCall
        /\ lang # "lua" /\ fn \in Async
        /\ lang' = lang /\ topic' = topic /\ held' = held /\ object' = object /\ at' = at
    BY DEF Submit, Synchronous, session
  <1> HIDE DEF wrap
  <1>3. Written(wrap, json) /\ Addressed(fn, json)
    BY <1>1, <1>2, PassedHandles DEF CallInv, wrap
  <1>4. JobInv'
    <2>1. lang = "js"
      BY <1>2, EngineAssumed DEF CallInv
    <2>2. job'.fn = fn /\ job'.json = json
      BY <1>1
    <2> QED
      BY <1>2, <1>3, <2>1, <2>2 DEF JobInv, Addressed, wrap
  <1>5. LastInv'
    BY <1>2, NoCallIsFine
  <1>6. SessionInv' /\ HandleInv'
    BY <1>1, <1>2 DEF CallInv, SessionInv, TypesOfHandles, HandleInv
  <1>7. StreamInv'
    BY <1>2 DEF CallInv, StreamInv, StreamReleases
  <1> QED
    BY <1>4, <1>5, <1>6, <1>7 DEF CallInv

\* What is known of a call on a worker.
LEMMA JobIsAddressed ==
  ASSUME CallInv, job.phase # "none"
  PROVE  /\ lang = "js" /\ job.fn \in Async
         /\ topic # "stream" /\ at = "out"
         /\ job.fn \in DOMAIN Lib(lang)
         /\ Written(Lib(lang)[job.fn], job.json)
         /\ Addressed(job.fn, job.json)
  <1>1. topic # "stream"
    BY NoFunctionsInStreams DEF CallInv, JobInv
  <1> QED
    BY <1>1 DEF CallInv, JobInv, StreamInv

\* The worker reads the text and begins to use the objects.
LEMMA WorkerBeginsKeepsInv ==
  ASSUME CallInv, WorkerBegins
  PROVE  CallInv'
  <1>1. /\ job.phase = "queued" /\ job' = [job EXCEPT !.phase = "running"]
        /\ last' = Called(job.fn, Lib(lang)[job.fn], job.json)
        /\ lang' = lang /\ topic' = topic /\ held' = held /\ object' = object /\ at' = at
    BY DEF WorkerBegins, session
  <1>2. LastInv'
    BY <1>1, JobIsAddressed, LastInvAfter DEF CallInv
  <1>3. job'.fn = job.fn /\ job'.json = job.json
    BY <1>1
  <1>4. JobInv'
    BY <1>1, <1>3 DEF CallInv, JobInv, Addressed
  <1>5. SessionInv' /\ HandleInv'
    <2>1. job'.phase \in {"none", "queued", "running"}
      BY <1>1
    <2> QED
      BY <1>1, <2>1 DEF CallInv, SessionInv, TypesOfHandles, HandleInv
  <1>6. StreamInv'
    BY <1>1 DEF CallInv, StreamInv, StreamReleases
  <1> QED
    BY <1>2, <1>4, <1>5, <1>6 DEF CallInv

\* The worker uses them until it settles the promise.
LEMMA WorkerEndsKeepsInv ==
  ASSUME CallInv, WorkerEnds
  PROVE  CallInv'
  <1>1. /\ job.phase = "running" /\ job' = NoJob
        /\ last' = Called(job.fn, Lib(lang)[job.fn], job.json)
        /\ Effects(job.fn, Lib(lang)[job.fn], job.json)
        /\ lang' = lang /\ topic' = topic /\ at' = at
    BY DEF WorkerEnds, session
  <1>2. LastInv'
    BY <1>1, JobIsAddressed, LastInvAfter DEF CallInv
  <1>3. HandleInv' /\ TypesOfHandles'
    BY <1>1, JobIsAddressed, HandleInvAfter DEF CallInv
  <1>4. job'.phase = "none"
    BY <1>1 DEF NoJob
  <1>5. JobInv' /\ SessionInv'
    BY <1>1, <1>3, <1>4 DEF CallInv, JobInv, SessionInv
  <1>6. StreamInv'
    BY <1>1, JobIsAddressed DEF StreamInv, StreamReleases, Following
  <1> QED
    BY <1>2, <1>3, <1>5, <1>6 DEF CallInv

\* The calls of a stream.
StreamSteps == {"init", "input", "process", "finished", "release"}

\* The functions that streams call: each handles the stream's own object.
LEMMA StreamFunctions ==
  ASSUME NEW z \in {"zip", "unzip"}, NEW step \in StreamSteps
  PROVE  LET fn == ZFn[z][step]
         IN  /\ fn \in DOMAIN Js
             /\ \A key \in DOMAIN Js[fn].sends :
                  Js[fn].sends[key] \in Handles => Js[fn].sends[key] = z /\ step # "init"
             /\ step = "init" => fn \in DOMAIN Opens /\ fn \notin DOMAIN Deletes /\ Opens[fn] = z
             /\ step = "release" => fn \in DOMAIN Deletes /\ fn \notin DOMAIN Opens /\ Deletes[fn] = z
             /\ step \notin {"init", "release"} => fn \notin DOMAIN Opens \cup DOMAIN Deletes
  <1>1. /\ ZFn[z]["init"] = IF z = "zip" THEN "z_zip_init" ELSE "z_unzip_init"
        /\ ZFn[z]["input"] = IF z = "zip" THEN "z_zip_input" ELSE "z_unzip_input"
        /\ ZFn[z]["process"] = IF z = "zip" THEN "z_zip_process_do" ELSE "z_unzip_process_do"
        /\ ZFn[z]["finished"] = IF z = "zip" THEN "z_zip_process_finished" ELSE "z_unzip_process_finished"
        /\ ZFn[z]["release"] = IF z = "zip" THEN "z_zip_release" ELSE "z_unzip_release"
    BY DEF ZFn
  <1> DEFINE fn == ZFn[z][step]
  <1>2. fn \in DOMAIN JsZip
    BY <1>1, WrapperNames, FunctionNames DEF StreamSteps
  <1>3. fn \in DOMAIN Js /\ Js[fn] = JsZip[fn]
    BY <1>2, JsIsItsTables
  <1>4. /\ step = "init" => fn \in DOMAIN Opens /\ fn \notin DOMAIN Deletes /\ Opens[fn] = z
        /\ step = "release" => fn \in DOMAIN Deletes /\ fn \notin DOMAIN Opens /\ Deletes[fn] = z
        /\ step \notin {"init", "release"} => fn \notin DOMAIN Opens \cup DOMAIN Deletes
    BY <1>1 DEF StreamSteps, Opens, Deletes
  <1>5. \A g \in {"z_zip_init", "z_unzip_init"} : \A key \in DOMAIN JsZip[g].sends :
          JsZip[g].sends[key] \notin Handles
    BY DEF JsZip, Wrap, Sized, Both, Handles
  <1>6. \A g \in {"z_zip_input", "z_zip_process_do", "z_zip_process_finished", "z_zip_release"} :
          \A key \in DOMAIN JsZip[g].sends : JsZip[g].sends[key] \in Handles => JsZip[g].sends[key] = "zip"
    BY DEF JsZip, Wrap, OfInput, OfBytes, Both, Handles
  <1>7. \A g \in {"z_unzip_input", "z_unzip_process_do", "z_unzip_process_finished", "z_unzip_release"} :
          \A key \in DOMAIN JsZip[g].sends : JsZip[g].sends[key] \in Handles => JsZip[g].sends[key] = "unzip"
    BY DEF JsZip, Wrap, OfInput, OfBytes, Both, Handles
  <1>8. \A key \in DOMAIN JsZip[fn].sends :
          JsZip[fn].sends[key] \in Handles => JsZip[fn].sends[key] = z /\ step # "init"
    <2>1. fn \in {"z_zip_init", "z_unzip_init"} => step = "init"
      BY <1>1 DEF StreamSteps
    <2>2. step = "init" => fn \in {"z_zip_init", "z_unzip_init"}
      BY <1>1 DEF StreamSteps
    <2>3. step # "init" /\ z = "zip" =>
            fn \in {"z_zip_input", "z_zip_process_do", "z_zip_process_finished", "z_zip_release"}
      BY <1>1 DEF StreamSteps
    <2>4. step # "init" /\ z = "unzip" =>
            fn \in {"z_unzip_input", "z_unzip_process_do", "z_unzip_process_finished", "z_unzip_release"}
      BY <1>1 DEF StreamSteps
    <2> HIDE DEF fn
    <2> QED
      BY <1>5, <1>6, <1>7, <2>2, <2>3, <2>4
  <1> QED
    BY <1>3, <1>4, <1>8

\* A release gets through whatever text it is given for the object, but none.
LEMMA ReleaseArrives ==
  ASSUME NEW z \in {"zip", "unzip"}, NEW json,
         Written(Js[ZFn[z]["release"]], json),
         \A key \in DOMAIN json : json[key] # "none"
  PROVE  Outcome(Api[ZFn[z]["release"]], json) = "called"
  <1> DEFINE fn == ZFn[z]["release"]
             f == Api[fn]
  <1>1. fn = IF z = "zip" THEN "z_zip_release" ELSE "z_unzip_release"
    BY DEF ZFn
  <1>2. fn \notin Rsa /\ fn # "crypto_rsa_gen_key"
    BY <1>1 DEF Rsa
  <1>3. Declared(f) /\ TypesAgree(f, Js[fn]) /\ Complete(f, Js[fn])
    BY <1>2, StreamFunctions, JsWrappers DEF Agrees, StreamSteps
  <1>4. Params(f) = {Handle(z)}
    <2>1. z = "zip" => f = ZipApi["z_zip_release"]
      BY <1>1, ApiIsItsTables, ZApiIsItsTables, FunctionNames
    <2>2. z = "unzip" => f = UnzipApi["z_unzip_release"]
      BY <1>1, ApiIsItsTables, ZApiIsItsTables, FunctionNames
    <2>3. Params(ZipApi["z_zip_release"]) = {Handle("zip")}
      BY Stages DEF ZipApi
    <2>4. Params(UnzipApi["z_unzip_release"]) = {Handle("unzip")}
      BY Stages DEF UnzipApi
    <2> HIDE DEF f
    <2> QED
      BY <2>1, <2>2, <2>3, <2>4
  <1> DEFINE p == Handle(z)
  <1>5. p \in Params(f) /\ p.must /\ p.as = "pointer" /\ p.key \in DOMAIN json
    BY <1>3, <1>4 DEF Handle, Need, Complete, Needed, Written
  <1> HIDE DEF f
  <1>6. NodeOf(json, p.key) \in {"empty", "address"}
    <2>1. NodeOf(json, p.key) = json[p.key] /\ json[p.key] \in {"none", "empty", "address"}
      BY <1>3, <1>5, TypedNodes DEF fn
    <2> QED
      BY <1>5, <2>1
  <1> HIDE DEF p
  <1>7. Given(p, NodeOf(json, p.key)) /\ ~Throws(p, NodeOf(json, p.key))
    BY <1>5, <1>6 DEF Given, Throws, Pointer, ReadString
  <1>8. \A q \in Params(f) : q = p
    BY <1>4 DEF p
  <1>9. ~Torn(f, json)
    BY <1>3, <1>7, <1>8, NotTorn DEF Written
  <1> QED
    BY <1>7, <1>8, <1>9, CalledIfGiven DEF f, fn

\* A call of a stream, with what it does to the stream's object and to the other one.
LEMMA StreamCallFacts ==
  ASSUME CallInv, lang = "js", NEW z \in {"zip", "unzip"}, NEW step \in StreamSteps, NEW next,
         StreamCall(z, step, next),
         IF step = "init" THEN object[z] = "none"
                          ELSE held[z] # "none" /\ (object[z] = "live" => held[z] = "address")
  PROVE  /\ LastInv' /\ HandleInv' /\ TypesOfHandles'
         /\ at' = next /\ lang' = lang /\ topic' = topic /\ job' = job
         /\ \A k \in Handles \ {z} : held'[k] = held[k] /\ object'[k] = object[k]
         /\ step = "init" =>
              held'[z] # "none" /\ (object'[z] = "live" => held'[z] = "address")
         /\ step \notin {"init", "release"} => held'[z] = held[z] /\ object'[z] = object[z]
         /\ step = "release" => object'[z] # "live"
  <1> DEFINE fn == ZFn[z][step]
             wrap == Lib(lang)[fn]
  <1>1. PICK json \in Texts(wrap) : last' = Called(fn, wrap, json) /\ Effects(fn, wrap, json)
    BY DEF StreamCall
  <1>2. at' = next /\ lang' = lang /\ topic' = topic /\ job' = job
    BY DEF StreamCall, session
  <1>3. Lib(lang) = Js
    BY DEF Lib
  <1>4. /\ fn \in DOMAIN Lib(lang)
        /\ \A key \in DOMAIN wrap.sends : wrap.sends[key] \in Handles => wrap.sends[key] = z /\ step # "init"
    BY <1>3, StreamFunctions
  <1>5. /\ step = "init" => fn \in DOMAIN Opens /\ fn \notin DOMAIN Deletes /\ Opens[fn] = z
        /\ step = "release" => fn \in DOMAIN Deletes /\ fn \notin DOMAIN Opens /\ Deletes[fn] = z
        /\ step \notin {"init", "release"} => fn \notin DOMAIN Opens \cup DOMAIN Deletes
    BY StreamFunctions
  <1>6. step = "release" => Reaches(wrap) /\ wrap = Js[ZFn[z]["release"]] /\ fn = ZFn[z]["release"]
    BY <1>3, <1>4, JsWrappers DEF Reaches, JsBound, Agrees
  <1> HIDE DEF wrap, fn
  <1>7. /\ Written(wrap, json)
        /\ \A key \in DOMAIN json : wrap.sends[key] \in Handles => json[key] = held[wrap.sends[key]]
    BY <1>1, TextsAreWritten DEF CallInv, SessionInv
  <1>8. Addressed(fn, json) /\ StillHeld(fn, json)
    <2>1. \A key \in DOMAIN json : wrap.sends[key] \in Handles =>
            wrap.sends[key] = z /\ json[key] = held[z] /\ step # "init"
      BY <1>4, <1>7 DEF Written
    <2>2. z \in Handles /\ held[z] \in {"none", "empty", "address"}
      BY DEF Handles, CallInv, SessionInv, TypesOfHandles, HandleTexts
    <2>3. held[z] = "address" => object[z] # "none"
      BY <2>2 DEF CallInv, HandleInv
    <2> QED
      BY <2>1, <2>2, <2>3 DEF Addressed, StillHeld, wrap
  <1>9. LastInv'
    BY <1>1, <1>2, <1>4, <1>7, <1>8, LastInvAfter DEF CallInv, wrap
  <1>10. HandleInv' /\ TypesOfHandles'
    BY <1>1, <1>4, HandleInvAfter DEF CallInv, wrap
  <1>11. lang \in {"js", "lua"} /\ TypesOfHandles
    BY DEF CallInv, SessionInv
  <1>12. \A k \in Handles :
           ~(fn \in DOMAIN Opens /\ k = Opens[fn]) /\ ~(fn \in DOMAIN Deletes /\ k = Deletes[fn]) =>
             held'[k] = held[k] /\ object'[k] = object[k]
    BY <1>1, <1>4, <1>11, EffectFacts DEF wrap
  <1>13. fn \in DOMAIN Opens =>
           /\ held'[Opens[fn]] # "none"
           /\ object'[Opens[fn]] = "live" /\ object[Opens[fn]] # "live" => held'[Opens[fn]] = "address"
    BY <1>1, <1>4, <1>11, EffectFacts DEF wrap
  <1>14. fn \in DOMAIN Deletes =>
           /\ object'[Deletes[fn]] \in {object[Deletes[fn]], "deleted"}
           /\ /\ Reaches(wrap) /\ Outcome(Api[fn], json) = "called"
              /\ "address" \in Image(json)
              => object'[Deletes[fn]] = "deleted"
    BY <1>1, <1>4, <1>11, EffectFacts DEF wrap
  <1>15. ASSUME step = "release"
         PROVE  object'[z] # "live"
    <2>1. /\ ZFn["zip"]["release"] = "z_zip_release"
          /\ ZFn["unzip"]["release"] = "z_unzip_release"
      BY DEF ZFn
    <2>2. /\ JsZip["z_zip_release"].sends = [zip |-> "zip"]
          /\ JsZip["z_unzip_release"].sends = [unzip |-> "unzip"]
      BY DEF JsZip, Wrap
    <2>3. wrap = JsZip[ZFn[z]["release"]]
      BY <1>6, <1>15, <2>1, JsIsItsTables, WrapperNames, FunctionNames
    <2>4. wrap.sends = [zip |-> "zip"] \/ wrap.sends = [unzip |-> "unzip"]
      BY <2>1, <2>2, <2>3
    <2>5. \A key \in DOMAIN json : wrap.sends[key] \in Handles
      BY <1>7, <2>4 DEF Written, Handles
    <2>6. \A key \in DOMAIN json : json[key] = held[z]
      BY <1>4, <1>7, <2>5 DEF Written
    <2>7. "zip" \in DOMAIN json \/ "unzip" \in DOMAIN json
      BY <1>7, <2>4 DEF Written
    <2>8. held[z] # "none" /\ (object[z] = "live" => held[z] = "address")
      BY <1>15
    <2>9. Outcome(Api[fn], json) = "called"
      BY <1>6, <1>7, <1>15, <2>6, <2>8, ReleaseArrives
    <2>10. held[z] = "address" => "address" \in Image(json)
      BY <2>6, <2>7 DEF Image
    <2> QED
      BY <1>5, <1>6, <1>14, <1>15, <2>8, <2>9, <2>10
  <1>16. z \in Handles
    BY DEF Handles
  <1> QED
    BY <1>2, <1>5, <1>9, <1>10, <1>12, <1>13, <1>15, <1>16

\* The first call of a stream makes its object, or fails.
LEMMA StreamInitKeepsInv ==
  ASSUME CallInv, NEW z \in {"zip", "unzip"}, StreamInit(z)
  PROVE  CallInv'
  <1>1. /\ topic = "stream" /\ lang = "js" /\ at = "out"
        /\ StreamCall(z, "init", "input")
        /\ object[z] = "none"
    BY DEF StreamInit, CallInv, StreamInv, Handles
  <1>2. /\ LastInv' /\ HandleInv' /\ TypesOfHandles'
        /\ at' = "input" /\ lang' = lang /\ topic' = topic /\ job' = job
        /\ \A k \in Handles \ {z} : held'[k] = held[k] /\ object'[k] = object[k]
        /\ held'[z] # "none" /\ (object'[z] = "live" => held'[z] = "address")
    BY <1>1, StreamCallFacts DEF StreamSteps
  <1>3. job.phase = "none"
    BY <1>1, JobIsAddressed
  <1>4. JobInv'
    BY <1>2, <1>3 DEF JobInv
  <1>5. SessionInv'
    BY <1>2 DEF CallInv, SessionInv, Following
  <1>6. \A k \in Handles \ {z} : held'[k] = "none" /\ object'[k] = "none"
    BY <1>1, <1>2 DEF CallInv, StreamInv
  <1>7. StreamInv'
    BY <1>1, <1>2, <1>6 DEF StreamInv, StreamReleases
  <1> QED
    BY <1>2, <1>4, <1>5, <1>7 DEF CallInv

\* A stream is over after the release, and only then.
LEMMA FollowingFacts ==
  /\ DOMAIN Following = StreamSteps \ {"init"}
  /\ \A step \in DOMAIN Following :
       /\ Following[step] \subseteq DOMAIN Following \cup {"over"}
       /\ step = "release" <=> "over" \in Following[step]
       /\ step = "release" => Following[step] = {"over"}
  BY DEF Following, StreamSteps

\* The calls after it, up to the release.
LEMMA StreamStepKeepsInv ==
  ASSUME CallInv, NEW z \in {"zip", "unzip"}, StreamStep(z)
  PROVE  CallInv'
  <1>1. PICK next \in Following[at] : StreamCall(z, at, next)
    BY DEF StreamStep
  <1>2. at \in DOMAIN Following /\ held[z] # "none"
    BY DEF StreamStep
  <1>3. topic = "stream" /\ lang = "js"
    BY <1>2 DEF CallInv, StreamInv, Following
  <1>4. /\ object[z] = "live" => held[z] = "address"
        /\ \A k \in Handles \ {z} : held[k] = "none" /\ object[k] = "none"
    <2>1. PICK y \in {"zip", "unzip"} :
            /\ object[y] = "live" => held[y] = "address"
            /\ \A k \in Handles \ {y} : held[k] = "none" /\ object[k] = "none"
      BY <1>2 DEF CallInv, StreamInv
    <2>2. y = z
      BY <1>2, <2>1 DEF Handles
    <2> QED
      BY <2>1, <2>2
  <1>5. /\ LastInv' /\ HandleInv' /\ TypesOfHandles'
        /\ at' = next /\ lang' = lang /\ topic' = topic /\ job' = job
        /\ \A k \in Handles \ {z} : held'[k] = held[k] /\ object'[k] = object[k]
        /\ at # "release" => held'[z] = held[z] /\ object'[z] = object[z]
        /\ at = "release" => object'[z] # "live"
    BY <1>1, <1>2, <1>3, <1>4, StreamCallFacts, FollowingFacts DEF StreamSteps
  <1>6. job.phase = "none"
    BY <1>3, JobIsAddressed
  <1>7. JobInv'
    BY <1>5, <1>6 DEF JobInv
  <1>8. SessionInv'
    BY <1>1, <1>2, <1>5, FollowingFacts DEF CallInv, SessionInv
  <1>9. \A k \in Handles \ {z} : held'[k] = "none" /\ object'[k] = "none"
    BY <1>4, <1>5
  <1>10. /\ next = "over" <=> at = "release"
         /\ next # "out"
         /\ next \in DOMAIN Following \/ next = "over"
         /\ "over" \notin DOMAIN Following
    BY <1>1, <1>2, FollowingFacts DEF StreamSteps
  <1>11. StreamReleases'
    BY <1>5, <1>9, <1>10 DEF StreamReleases
  <1>12. next \in DOMAIN Following =>
           held'[z] # "none" /\ (object'[z] = "live" => held'[z] = "address")
    BY <1>2, <1>4, <1>5, <1>10
  <1>13. StreamInv'
    BY <1>3, <1>5, <1>9, <1>10, <1>11, <1>12 DEF StreamInv
  <1> QED
    BY <1>5, <1>7, <1>8, <1>13 DEF CallInv

\* The script's reader or writer may throw.
LEMMA StreamThrowsKeepsInv ==
  ASSUME CallInv, StreamThrows
  PROVE  CallInv'
  <1>1. /\ at \in {"input", "finished"} /\ at' = "thrown"
        /\ UNCHANGED <<lang, topic, held, object, job, last>>
    BY DEF StreamThrows, session
  <1>2. LastInv'
    BY <1>1 DEF CallInv, LastInv, ArgumentsArrive, ThrowsOnlyOnNonNumbers, DeadOnlyIfEmptyOrClosed, Mute
  <1>3. HandleInv' /\ SessionInv' /\ JobInv'
    BY <1>1 DEF CallInv, HandleInv, SessionInv, TypesOfHandles, JobInv, Addressed
  <1>4. topic = "stream" /\ lang = "js"
    BY <1>1 DEF CallInv, StreamInv
  <1>5. StreamInv'
    BY <1>1, <1>4 DEF StreamInv, StreamReleases, Following
  <1> QED
    BY <1>2, <1>3, <1>5 DEF CallInv

\* Conversions touch no object.
LEMMA ApplyKeepsInv ==
  ASSUME CallInv, NEW fn, Apply(fn)
  PROVE  CallInv'
  <1>1. /\ topic = "data"
        /\ last' = [NoCall EXCEPT !.fn = fn,
                      !.outcome = IF data'.of = <<"failed">> THEN "failed" ELSE "called"]
        /\ UNCHANGED <<lang, topic, held, object, job, at>>
    BY DEF Apply, session
  <1>2. last'.touched = {} /\ last'.outcome \in {"failed", "called"}
    BY <1>1 DEF NoCall
  <1>3. LastInv'
    BY <1>1, <1>2 DEF LastInv, ArgumentsArrive, ThrowsOnlyOnNonNumbers, DeadOnlyIfEmptyOrClosed
  <1>4. HandleInv' /\ SessionInv' /\ JobInv' /\ StreamInv'
    BY <1>1
       DEF CallInv, HandleInv, SessionInv, TypesOfHandles, JobInv, Addressed, StreamInv,
           StreamReleases
  <1> QED
    BY <1>3, <1>4 DEF CallInv

\* The initial states satisfy the invariant of the calls.
LEMMA InitCallInv == Init => CallInv
  <1> SUFFICES ASSUME Init
               PROVE  CallInv
    OBVIOUS
  <1>1. /\ lang \in Langs /\ topic \in Topics /\ at = "out"
        /\ held = [k \in Handles |-> "none"] /\ object = [k \in Handles |-> "none"]
        /\ job.phase = "none"
    BY DEF Init, NoJob
  <1>2. LastInv
    BY DEF Init, NoCall, LastInv, ArgumentsArrive, ThrowsOnlyOnNonNumbers, DeadOnlyIfEmptyOrClosed
  <1>3. SessionInv /\ HandleInv /\ JobInv /\ StreamInv
    BY <1>1 DEF SessionInv, TypesOfHandles, HandleTexts, ObjectStates, HandleInv, JobInv,
                StreamInv, StreamReleases, Following
  <1> QED
    BY <1>2, <1>3 DEF CallInv

\* Every step keeps the invariant of the calls.
LEMMA NextKeepsCallInv == CallInv /\ [Next]_vars => CallInv'
  <1> SUFFICES ASSUME CallInv, [Next]_vars
               PROVE  CallInv'
    OBVIOUS
  <1>1. ASSUME NEW fn \in Functions[topic] \cap DOMAIN Lib(lang), Call(fn) \/ Submit(fn)
        PROVE  CallInv'
    BY <1>1, CallKeepsInv, SubmitKeepsInv
  <1>2. CASE WorkerStep
    BY <1>2, WorkerBeginsKeepsInv, WorkerEndsKeepsInv DEF WorkerStep
  <1>3. CASE StreamThrows
    BY <1>3, StreamThrowsKeepsInv
  <1>4. ASSUME NEW z \in {"zip", "unzip"}, StreamInit(z) \/ StreamStep(z)
        PROVE  CallInv'
    BY <1>4, StreamInitKeepsInv, StreamStepKeepsInv
  <1>5. ASSUME NEW fn \in Encoders \cup Decoders, Apply(fn)
        PROVE  CallInv'
    BY <1>5, ApplyKeepsInv
  <1>6. CASE UNCHANGED vars
    <2>1. UNCHANGED <<lang, topic, held, object, job, last, at>>
      BY <1>6 DEF vars, session
    <2>2. LastInv'
      BY <2>1
         DEF CallInv, LastInv, ArgumentsArrive, ThrowsOnlyOnNonNumbers, DeadOnlyIfEmptyOrClosed, Mute
    <2>3. HandleInv' /\ SessionInv' /\ JobInv' /\ StreamInv'
      BY <2>1 DEF CallInv, HandleInv, SessionInv, TypesOfHandles, JobInv, Addressed, StreamInv,
                  StreamReleases
    <2> QED
      BY <2>2, <2>3 DEF CallInv
  <1> QED
    BY <1>1, <1>2, <1>3, <1>4, <1>5, <1>6 DEF Next, ScriptStep, Stream, DataStep

\* The invariant of the calls holds in every session (scripts/JS/DynXX.js,
\* scripts/Lua/DynXX.lua, src/bridge/ScriptAPI.cxx).
THEOREM CallInvariance == Spec => []CallInv
  BY InitCallInv, NextKeepsCallInv, PTL DEF Spec

\* A call of either library whose arguments are all given reaches the C++ API with
\* every one of them, but for the functions that Mute lists (ScriptAPI.cxx).
THEOREM CallsArriveWhole == Spec => []ArgumentsArrive
  BY CallInvariance, PTL DEF CallInv, LastInv

\* The exception of optional::value() leaves ScriptAPI.cxx only for a number that is
\* none, and for the boolean of dynxx_crypto_rsa_gen_keyS.
THEOREM OnlyNonNumbersThrow == Spec => []ThrowsOnlyOnNonNumbers
  BY CallInvariance, PTL DEF CallInv, LastInv

\* A call of a script dereferences what is no live object only if the script passed
\* the empty text of an open that failed, or closed the object while a worker had
\* the call (DynXX.js, DynXX.lua, ScriptAPI.cxx, JSBridge.cxx:82-104).
THEOREM HandlesAreAlive == Spec => []DeadOnlyIfEmptyOrClosed
  BY CallInvariance, PTL DEF CallInv, LastInv

\* DynXXZZipStream and DynXXZUnZipStream that return have released their object, also
\* if the script looks at nothing (scripts/JS/DynXX.js).
THEOREM StreamsRelease == Spec => []StreamReleases
  BY CallInvariance, PTL DEF CallInv, StreamInv

-----------------------------------------------------------------------------
(* The invariant of the data                                                *)

\* The functions that convert, by the type of the data they take and make.
TakesText == {"coding_str2bytes", "coding_hex_str2bytes"}
MakesText == {"coding_bytes2str", "coding_hex_bytes2str", "z_bytes_zip"}
TakesBytes ==
  {"coding_bytes2str", "coding_hex_bytes2str", "crypto_aes_encrypt", "crypto_aes_decrypt",
   "crypto_aes_gcm_encrypt", "crypto_aes_gcm_decrypt", "crypto_base64_encode",
   "crypto_base64_decode", "z_bytes_zip"}
Zippers == {"z_bytes_zip", "z_bytes_unzip"}

\* The decoders, by name.
LEMMA DecoderNames ==
  Decoders = {"coding_bytes2str", "coding_hex_str2bytes", "crypto_aes_decrypt",
              "crypto_aes_gcm_decrypt", "crypto_rsa_decrypt", "crypto_base64_decode",
              "z_bytes_unzip"}
  <1>1. {"coding_bytes2str", "coding_hex_str2bytes", "crypto_aes_decrypt",
         "crypto_aes_gcm_decrypt", "crypto_rsa_decrypt", "crypto_base64_decode",
         "z_bytes_unzip"} \subseteq DOMAIN Api
    BY ApiIsItsTables, CryptoApiIsItsTables, ZApiIsItsTables, FunctionNames
  <1>2. "none" \notin Encoders
    BY DEF Encoders
  <1>3. \A fn : Undoes(fn) \in Encoders <=>
                fn \in {"coding_bytes2str", "coding_hex_str2bytes", "crypto_aes_decrypt",
                        "crypto_aes_gcm_decrypt", "crypto_rsa_decrypt", "crypto_base64_decode",
                        "z_bytes_unzip"}
    <2>1. \A fn : fn \in {"coding_bytes2str", "coding_hex_str2bytes", "crypto_aes_decrypt",
                        "crypto_aes_gcm_decrypt", "crypto_rsa_decrypt", "crypto_base64_decode",
                        "z_bytes_unzip"} => Undoes(fn) \in Encoders
      BY DEF Undoes, Encoders
    <2>2. \A fn : fn \notin {"coding_bytes2str", "coding_hex_str2bytes", "crypto_aes_decrypt",
                        "crypto_aes_gcm_decrypt", "crypto_rsa_decrypt", "crypto_base64_decode",
                        "z_bytes_unzip"} => Undoes(fn) = "none"
      BY DEF Undoes
    <2> QED
      BY <1>2, <2>1, <2>2
  <1> QED
    BY <1>1, <1>3 DEF Decoders

\* The tables of the functions that convert.
LEMMA ConverterTables ==
  /\ \A fn \in {"coding_str2bytes", "coding_hex_str2bytes", "coding_bytes2str", "coding_hex_bytes2str"} :
       fn \in DOMAIN CodingApi /\ fn \in DOMAIN Api /\ Api[fn] = CodingApi[fn]
  /\ \A fn \in {"crypto_aes_encrypt", "crypto_aes_decrypt", "crypto_aes_gcm_encrypt",
                "crypto_aes_gcm_decrypt"} :
       fn \in DOMAIN AesApi /\ fn \in DOMAIN Api /\ Api[fn] = AesApi[fn]
  /\ \A fn \in {"crypto_rsa_encrypt", "crypto_rsa_decrypt"} :
       fn \in DOMAIN RsaApi /\ fn \in DOMAIN Api /\ Api[fn] = RsaApi[fn]
  /\ \A fn \in {"crypto_base64_encode", "crypto_base64_decode"} :
       fn \in DOMAIN HashApi /\ fn \in DOMAIN Api /\ Api[fn] = HashApi[fn]
  /\ \A fn \in Zippers :
       fn \in DOMAIN ZBytesApi /\ fn \in DOMAIN Api /\ Api[fn] = ZBytesApi[fn]
  <1>1. \A fn \in {"coding_str2bytes", "coding_hex_str2bytes", "coding_bytes2str", "coding_hex_bytes2str"} :
       fn \in DOMAIN CodingApi /\ fn \in DOMAIN Api /\ Api[fn] = CodingApi[fn]
    BY ApiIsItsTables, FunctionNames
  <1>2. \A fn \in {"crypto_aes_encrypt", "crypto_aes_decrypt", "crypto_aes_gcm_encrypt",
                "crypto_aes_gcm_decrypt"} :
       fn \in DOMAIN AesApi /\ fn \in DOMAIN Api /\ Api[fn] = AesApi[fn]
    BY ApiIsItsTables, CryptoApiIsItsTables, FunctionNames
  <1>3. \A fn \in {"crypto_rsa_encrypt", "crypto_rsa_decrypt"} :
       fn \in DOMAIN RsaApi /\ fn \in DOMAIN Api /\ Api[fn] = RsaApi[fn]
    BY ApiIsItsTables, CryptoApiIsItsTables, FunctionNames
  <1>4. \A fn \in {"crypto_base64_encode", "crypto_base64_decode"} :
       fn \in DOMAIN HashApi /\ fn \in DOMAIN Api /\ Api[fn] = HashApi[fn]
    BY ApiIsItsTables, CryptoApiIsItsTables, FunctionNames
  <1>5. \A fn \in Zippers :
       fn \in DOMAIN ZBytesApi /\ fn \in DOMAIN Api /\ Api[fn] = ZBytesApi[fn]
    BY ApiIsItsTables, ZApiIsItsTables, FunctionNames DEF Zippers
  <1> QED
    BY <1>1, <1>2, <1>3, <1>4, <1>5

\* What they give.
LEMMA ConverterGives ==
  /\ \A fn \in {"coding_bytes2str", "coding_hex_bytes2str"} : Api[fn].gives = "text"
  /\ \A fn \in {"coding_str2bytes", "coding_hex_str2bytes", "crypto_aes_encrypt", "crypto_aes_decrypt",
                "crypto_aes_gcm_encrypt", "crypto_aes_gcm_decrypt", "crypto_rsa_encrypt",
                "crypto_rsa_decrypt", "crypto_base64_encode", "crypto_base64_decode",
                "z_bytes_zip", "z_bytes_unzip"} :
       Api[fn].gives = "bytes"
  <1>1. \A fn \in {"coding_bytes2str", "coding_hex_bytes2str"} : CodingApi[fn].gives = "text"
    BY DEF CodingApi, Fn
  <1>2. \A fn \in {"coding_str2bytes", "coding_hex_str2bytes"} : CodingApi[fn].gives = "bytes"
    BY DEF CodingApi, Fn
  <1>3. \A fn \in {"crypto_aes_encrypt", "crypto_aes_decrypt", "crypto_aes_gcm_encrypt",
                "crypto_aes_gcm_decrypt"} : AesApi[fn].gives = "bytes"
    BY DEF AesApi, Fn
  <1>4. \A fn \in {"crypto_rsa_encrypt", "crypto_rsa_decrypt"} : RsaApi[fn].gives = "bytes"
    BY DEF RsaApi, Fn
  <1>5. \A fn \in {"crypto_base64_encode", "crypto_base64_decode"} : HashApi[fn].gives = "bytes"
    BY DEF HashApi, Fn
  <1>6. \A fn \in Zippers : ZBytesApi[fn].gives = "bytes"
    BY DEF ZBytesApi, Fn, Zippers
  <1> QED
    BY <1>1, <1>2, <1>3, <1>4, <1>5, <1>6, ConverterTables DEF Zippers

\* What they take their data as.
LEMMA ConverterParams ==
  \A fn \in TakesText \cup TakesBytes : \A p \in Params(Api[fn]) :
    /\ p.key = "inBytes" => p.as = "array"
    /\ p.key = "str" => p.as = "text"
  <1> DEFINE Fine(f) == \A p \in Params(f) : /\ p.key = "inBytes" => p.as = "array"
                                             /\ p.key = "str" => p.as = "text"
  <1>1. \A fn \in {"coding_str2bytes", "coding_hex_str2bytes", "coding_bytes2str", "coding_hex_bytes2str"} :
          Fine(CodingApi[fn])
    BY DEF CodingApi, Fn, Params, Text, Bytes, Need
  <1>2. \A fn \in {"crypto_aes_encrypt", "crypto_aes_decrypt", "crypto_aes_gcm_encrypt",
                "crypto_aes_gcm_decrypt"} : Fine(AesApi[fn])
    BY SMTT(30) DEF AesApi, Keyed, Gcm, Fn, Params, Bytes, Need, May
  <1>3. \A fn \in {"crypto_base64_encode", "crypto_base64_decode"} : Fine(HashApi[fn])
    BY DEF HashApi, Fn, Params, Bytes, Need, May
  <1>4. Fine(ZBytesApi["z_bytes_zip"])
    BY DEF ZBytesApi, Fn, Params, Bytes, Number, Need
  <1> HIDE DEF Fine
  <1>5. \A fn \in TakesText \cup TakesBytes : Fine(Api[fn])
    BY <1>1, <1>2, <1>3, <1>4, ConverterTables DEF TakesText, TakesBytes, Zippers
  <1> QED
    BY <1>5 DEF Fine

\* The same functions, by the table they are in.
Coders == {"coding_str2bytes", "coding_hex_str2bytes", "coding_bytes2str", "coding_hex_bytes2str"}
Ciphers ==
  {"crypto_aes_encrypt", "crypto_aes_decrypt", "crypto_aes_gcm_encrypt", "crypto_aes_gcm_decrypt",
   "crypto_base64_encode", "crypto_base64_decode"}
RsaConverters == {"crypto_rsa_encrypt", "crypto_rsa_decrypt"}

\* Their wrappers, which both libraries share but for zip.
LEMMA ConverterWrappers ==
  ASSUME lang \in {"js", "lua"}
  PROVE  /\ \A fn \in Coders : fn \in DOMAIN Lib(lang) /\ Lib(lang)[fn] = JsCoding[fn]
         /\ \A fn \in Ciphers \cup RsaConverters : fn \in DOMAIN Lib(lang) /\ Lib(lang)[fn] = JsCrypto[fn]
         /\ \A fn \in Zippers : fn \in DOMAIN Lib(lang)
         /\ lang = "js" => \A fn \in Zippers : Lib(lang)[fn] = JsZBytes[fn]
         /\ lang = "lua" => \A fn \in Zippers : Lib(lang)[fn] = LuaZBytes[fn]
  <1>1. /\ \A fn \in Coders : fn \in DOMAIN JsCoding
        /\ \A fn \in Ciphers \cup RsaConverters : fn \in DOMAIN JsCrypto
        /\ \A fn \in Zippers : fn \in DOMAIN JsZBytes /\ fn \in DOMAIN LuaZBytes
    BY WrapperNames, FunctionNames DEF Coders, Ciphers, RsaConverters, Zippers
  <1>2. CASE lang = "js"
    BY <1>1, <1>2, JsIsItsTables DEF Lib
  <1>3. CASE lang = "lua"
    BY <1>1, <1>3, LuaIsItsTables, LuaNames DEF Lib
  <1> QED
    BY <1>2, <1>3

\* Whether a library parses what comes back.
LEMMA ConverterBacks ==
  /\ \A fn \in {"coding_str2bytes", "coding_hex_str2bytes"} : JsCoding[fn].back = "parsed"
  /\ \A fn \in Ciphers \cup RsaConverters : JsCrypto[fn].back = "parsed"
  /\ \A fn \in Zippers : JsZBytes[fn].back = "raw"
  /\ \A fn \in Zippers : LuaZBytes[fn].back = "parsed" /\ LuaZBytes[fn].calls = "z_bytes_unzip"
  <1>1. \A fn \in {"coding_str2bytes", "coding_hex_str2bytes"} : JsCoding[fn].back = "parsed"
    BY DEF JsCoding, Wrap
  <1>2. \A fn \in Ciphers \cup RsaConverters : JsCrypto[fn].back = "parsed"
    BY DEF JsCrypto, Wrap, Ciphers, RsaConverters
  <1>3. \A fn \in Zippers : JsZBytes[fn].back = "raw"
    BY DEF JsZBytes, Wrap, Zippers
  <1>4. \A fn \in Zippers : LuaZBytes[fn].back = "parsed" /\ LuaZBytes[fn].calls = "z_bytes_unzip"
    BY DEF LuaZBytes, Wrap, Zippers
  <1> QED
    BY <1>1, <1>2, <1>3, <1>4

\* Which of the two keys for data a wrapper sends.
LEMMA ConverterSends ==
  /\ \A fn \in TakesText : "inBytes" \notin DOMAIN JsCoding[fn].sends
  /\ \A fn \in Coders \ TakesText : "str" \notin DOMAIN JsCoding[fn].sends
  /\ \A fn \in Ciphers : "str" \notin DOMAIN JsCrypto[fn].sends
  /\ \A fn \in RsaConverters : "padding" \notin DOMAIN JsCrypto[fn].sends
  /\ "str" \notin DOMAIN JsZBytes["z_bytes_zip"].sends
  <1>1. \A fn \in TakesText : "inBytes" \notin DOMAIN JsCoding[fn].sends
    BY DEF TakesText, JsCoding, Wrap, OfStr
  <1>2. \A fn \in Coders \ TakesText : "str" \notin DOMAIN JsCoding[fn].sends
    BY DEF Coders, TakesText, JsCoding, Wrap, OfBytes
  <1>3. \A fn \in Ciphers : "str" \notin DOMAIN JsCrypto[fn].sends
    BY SMTT(60) DEF Ciphers, JsCrypto, Wrap, OfKeyBytes, OfBytes, OfGcm, OfBase64, Both
  <1>4. \A fn \in RsaConverters : "padding" \notin DOMAIN JsCrypto[fn].sends
    BY DEF RsaConverters, JsCrypto, Wrap, OfKeyBytes, OfBytes, Both
  <1>5. "str" \notin DOMAIN JsZBytes["z_bytes_zip"].sends
    BY DEF JsZBytes, Wrap, OfBytes, Sized, Both
  <1> QED
    BY <1>1, <1>2, <1>3, <1>4, <1>5

\* The functions whose calls get through.
Converters == TakesText \cup TakesBytes

\* Data passed to such a function, and what the script has in hand afterwards.
LEMMA ConverterFits ==
  ASSUME lang \in {"js", "lua"}, NEW fn \in Converters, ~(lang = "lua" /\ fn = "z_bytes_zip")
  PROVE  LET wrap == Lib(lang)[fn]
         IN  /\ fn \in DOMAIN Lib(lang) /\ wrap.calls = fn
             /\ Declared(Api[fn]) /\ TypesAgree(Api[fn], wrap) /\ Complete(Api[fn], wrap)
             /\ fn \in TakesText => "inBytes" \notin DOMAIN wrap.sends
             /\ fn \in TakesBytes => "str" \notin DOMAIN wrap.sends
             /\ InHand(wrap) = IF fn \in MakesText THEN "string" ELSE "bytes"
  <1> DEFINE wrap == Lib(lang)[fn]
  <1>1. ~Mute(fn)
    BY DEF Mute, Rsa, Converters, TakesText, TakesBytes
  <1>2. fn \in Coders \cup Ciphers \/ (lang = "js" /\ fn = "z_bytes_zip")
    BY DEF Converters, TakesText, TakesBytes, Coders, Ciphers
  <1>3. fn \in DOMAIN Lib(lang)
    BY <1>2, ConverterWrappers DEF Zippers
  <1>4. wrap.calls = fn /\ Declared(Api[fn]) /\ TypesAgree(Api[fn], wrap) /\ Complete(Api[fn], wrap)
    BY <1>1, <1>3, LayersAgree
  <1>5. /\ fn \in Coders => wrap = JsCoding[fn]
        /\ fn \in Ciphers => wrap = JsCrypto[fn]
        /\ fn = "z_bytes_zip" => wrap = JsZBytes[fn]
    BY ConverterWrappers DEF Zippers
  <1> HIDE DEF wrap
  <1>6. /\ fn \in TakesText => "inBytes" \notin DOMAIN wrap.sends
        /\ fn \in TakesBytes => "str" \notin DOMAIN wrap.sends
    BY <1>2, <1>5, ConverterSends DEF TakesText, TakesBytes, Coders, Ciphers
  <1>7. fn \in {"coding_bytes2str", "coding_hex_bytes2str"} => InHand(wrap) = "string"
    BY <1>4, ConverterGives DEF InHand
  <1>8. fn = "z_bytes_zip" => InHand(wrap) = "string"
    BY <1>4, <1>5, ConverterGives, ConverterBacks DEF InHand, Zippers
  <1>9. fn \in TakesText \cup Ciphers => InHand(wrap) = "bytes"
    BY <1>4, <1>5, ConverterGives, ConverterBacks DEF InHand, TakesText, Ciphers, Coders
  <1>10. InHand(wrap) = IF fn \in MakesText THEN "string" ELSE "bytes"
    BY <1>2, <1>7, <1>8, <1>9 DEF Coders, Ciphers, TakesText, MakesText
  <1> QED
    BY <1>3, <1>4, <1>6, <1>10 DEF wrap

\* Data of the right type gets through, with every other argument given.
LEMMA FilledArrives ==
  ASSUME lang \in {"js", "lua"}, NEW fn \in Converters, ~(lang = "lua" /\ fn = "z_bytes_zip"),
         NEW d, fn \in TakesText => d.is = "string", fn \in TakesBytes => d.is = "bytes"
  PROVE  Outcome(Api[fn], Filled(Lib(lang)[fn], d)) = "called"
  <1> DEFINE wrap == Lib(lang)[fn]
             json == Filled(wrap, d)
             f == Api[fn]
  <1>1. /\ Declared(f) /\ TypesAgree(f, wrap) /\ Complete(f, wrap)
        /\ fn \in TakesText => "inBytes" \notin DOMAIN wrap.sends
        /\ fn \in TakesBytes => "str" \notin DOMAIN wrap.sends
    BY ConverterFits
  <1>2. \A p \in Params(f) : /\ p.key = "inBytes" => p.as = "array"
                             /\ p.key = "str" => p.as = "text"
    BY ConverterParams DEF Converters
  <1>3. DOMAIN json = DOMAIN wrap.sends
    BY DEF Filled
  <1>4. \A key \in DOMAIN json :
          json[key] = IF key \in {"inBytes", "str"} THEN Passed(d)
                      ELSE IF wrap.sends[key] = "array" THEN "array" ELSE "number"
    BY DEF Filled
  <1>5. /\ fn \in TakesText => Passed(d) = "text"
        /\ fn \in TakesBytes => Passed(d) = "array"
        /\ fn \in TakesText \cup TakesBytes
    BY DEF Passed, Converters
  <1> HIDE DEF f, wrap, json
  <1>6. ASSUME NEW p \in Params(f), p.key \in DOMAIN json
        PROVE  Given(p, NodeOf(json, p.key)) /\ ~Throws(p, NodeOf(json, p.key))
    <2> DEFINE node == NodeOf(json, p.key)
    <2>1. node = json[p.key]
      BY <1>6 DEF NodeOf
    <2>2. p.as \in {"text", "number", "pointer", "array"} /\ wrap.sends[p.key] \in Takes(p.as)
      BY <1>1, <1>3, <1>6 DEF Declared, TypesAgree
    <2>3. CASE p.key \in {"inBytes", "str"}
      <3>1. p.key = "inBytes" => node = "array" /\ p.as = "array"
        BY <1>1, <1>2, <1>3, <1>4, <1>5, <1>6, <2>1
      <3>2. p.key = "str" => node = "text" /\ p.as = "text"
        BY <1>1, <1>2, <1>3, <1>4, <1>5, <1>6, <2>1
      <3> HIDE DEF node
      <3>3. Given(p, node) /\ ~Throws(p, node)
        BY <2>3, <3>1, <3>2 DEF Given, Throws, ReadString
      <3> QED
        BY <3>3 DEF node
    <2>4. CASE p.key \notin {"inBytes", "str"}
      <3>1. node = IF wrap.sends[p.key] = "array" THEN "array" ELSE "number"
        BY <1>4, <1>6, <2>1, <2>4
      <3>2. p.as = "array" <=> node = "array"
        BY <2>2, <3>1 DEF Takes, Handles
      <3>3. node \in {"array", "number"}
        BY <3>1
      <3> HIDE DEF node
      <3>4. Given(p, node) /\ ~Throws(p, node)
        BY <2>2, <3>2, <3>3 DEF Given, Throws, Pointer, ReadString, ReadNumber
      <3> QED
        BY <3>4 DEF node
    <2> QED
      BY <2>3, <2>4
  <1>7. \A p \in Params(f) : p.key \notin DOMAIN json =>
          ~p.must /\ ~Throws(p, NodeOf(json, p.key))
    BY <1>1, <1>3, AbsentIsNotGiven DEF NodeOf, Complete, Needed
  <1>8. ~Torn(f, json)
    BY <1>1, <1>3, <1>6, NotTorn
  <1>9. Outcome(f, json) = "called"
    BY <1>6, <1>7, <1>8, CalledIfGiven
  <1> QED
    BY <1>9 DEF f, json, wrap

\* RSA never gets its padding.
LEMMA RsaNeverArrives ==
  ASSUME lang \in {"js", "lua"}, NEW fn \in RsaConverters, NEW d
  PROVE  Outcome(Api[Lib(lang)[fn].calls], Filled(Lib(lang)[fn], d)) # "called"
  <1> DEFINE wrap == Lib(lang)[fn]
             json == Filled(wrap, d)
             p == Number("padding")
  <1>1. wrap = JsCrypto[fn] /\ wrap.calls = fn
    <2>1. wrap = JsCrypto[fn]
      BY ConverterWrappers
    <2>2. JsCrypto[fn].calls = fn
      BY DEF JsCrypto, Wrap, RsaConverters
    <2> QED
      BY <2>1, <2>2
  <1>2. p \in Params(Api[fn])
    <2>1. Api[fn] = RsaApi[fn]
      BY ConverterTables DEF RsaConverters
    <2>2. RsaApi[fn] = Fn(Padded, "bytes")
      BY DEF RsaApi, RsaConverters
    <2>3. p \in Params(Fn(Padded, "bytes"))
      BY Stages DEF Padded
    <2> QED
      BY <2>1, <2>2, <2>3
  <1>3. p.key = "padding" /\ p.must /\ p.as = "number"
    BY DEF Number, Need
  <1>4. "padding" \notin DOMAIN json
    BY <1>1, ConverterSends DEF Filled
  <1> HIDE DEF p, json, wrap
  <1>5. ~Given(p, NodeOf(json, p.key))
    BY <1>3, <1>4, AbsentIsNotGiven DEF NodeOf
  <1>6. Outcome(Api[fn], json) # "called"
    BY <1>2, <1>3, <1>5, NotCalledIfMissing
  <1> QED
    BY <1>1, <1>6 DEF json, wrap

\* The text of zipped bytes, which is what JS has in hand, is not unzipped.
LEMMA TextIsNotUnzipped ==
  ASSUME lang \in {"js", "lua"}, NEW d, d.is = "string"
  PROVE  Outcome(Api[Lib(lang)["z_bytes_unzip"].calls], Filled(Lib(lang)["z_bytes_unzip"], d)) # "called"
  <1> DEFINE wrap == Lib(lang)["z_bytes_unzip"]
             json == Filled(wrap, d)
             p == Bytes("inBytes")
             f == Api["z_bytes_unzip"]
  <1>1. wrap.calls = "z_bytes_unzip"
    <2>1. JsZBytes["z_bytes_unzip"].calls = "z_bytes_unzip"
      BY DEF JsZBytes, Wrap
    <2>2. LuaZBytes["z_bytes_unzip"].calls = "z_bytes_unzip"
      BY ConverterBacks DEF Zippers
    <2> QED
      BY <2>1, <2>2, ConverterWrappers DEF Zippers
  <1>2. p \in Params(f)
    <2>1. f = ZBytesApi["z_bytes_unzip"]
      BY ConverterTables DEF Zippers
    <2>2. p \in Params(ZBytesApi["z_bytes_unzip"])
      BY Stages DEF ZBytesApi
    <2> QED
      BY <2>1, <2>2
  <1>3. p.key = "inBytes" /\ p.must /\ p.as = "array"
    BY DEF Bytes, Need
  <1>4. NodeOf(json, "inBytes") \in {"absent", "text"}
    BY DEF NodeOf, Filled, Passed
  <1> HIDE DEF p, json, wrap, f
  <1>5. ~Given(p, NodeOf(json, p.key))
    BY <1>3, <1>4 DEF Given
  <1>6. Outcome(f, json) # "called"
    BY <1>2, <1>3, <1>5, NotCalledIfMissing
  <1> QED
    BY <1>1, <1>6 DEF json, wrap, f

\* The encoders that data can have been through without a failure.
Lasting == Encoders \ RsaConverters

\* What data is after them.
KindOf(of) ==
  IF of = <<>> \/ of[Len(of)] \in {"coding_hex_bytes2str", "z_bytes_zip"}
  THEN "string" ELSE "bytes"

\* The data is of the type its conversions left it in, and str2bytes was applied to
\* text, everything else to bytes: so a decoder finds what its encoder made.
DataInv ==
  \/ data.of = <<"failed">>
  \/ /\ data.of \in Seq(Lasting)
     /\ data.is = KindOf(data.of)
     /\ \A i \in DOMAIN data.of :
          (data.of[i] = "coding_str2bytes") <=> (KindOf(SubSeq(data.of, 1, i - 1)) = "string")
     /\ lang = "lua" => \A i \in DOMAIN data.of : data.of[i] # "z_bytes_zip"

\* What an encoder leaves.
LEMMA KindAfterAppend ==
  ASSUME NEW of \in Seq(Lasting), NEW fn \in Lasting
  PROVE  KindOf(Append(of, fn)) = IF fn \in MakesText THEN "string" ELSE "bytes"
  <1>1. /\ Append(of, fn) # <<>>
        /\ Append(of, fn)[Len(Append(of, fn))] = fn
    BY AppendProperties
  <1>2. fn # "coding_bytes2str"
    BY DEF Lasting, Encoders
  <1> QED
    BY <1>1, <1>2 DEF KindOf, MakesText

\* An encoder that is given the type it takes.
LEMMA EncodeKeepsKind ==
  ASSUME DataInv, data.of # <<"failed">>, NEW fn \in Lasting,
         (fn = "coding_str2bytes") <=> (data.is = "string"),
         lang = "lua" => fn # "z_bytes_zip", lang' = lang,
         data'.of = Append(data.of, fn),
         data'.is = IF fn \in MakesText THEN "string" ELSE "bytes"
  PROVE  DataInv'
  <1> DEFINE of == data.of
             of1 == Append(of, fn)
  <1>1. /\ of \in Seq(Lasting) /\ data.is = KindOf(of)
        /\ \A i \in DOMAIN of : (of[i] = "coding_str2bytes") <=> (KindOf(SubSeq(of, 1, i - 1)) = "string")
        /\ lang = "lua" => \A i \in DOMAIN of : of[i] # "z_bytes_zip"
    BY DEF DataInv
  <1>2. data'.of = of1
    OBVIOUS
  <1> HIDE DEF of
  <1>3. /\ of1 \in Seq(Lasting) /\ Len(of1) = Len(of) + 1 /\ of1[Len(of) + 1] = fn
        /\ \A i \in 1 .. Len(of) : of1[i] = of[i]
        /\ DOMAIN of = 1 .. Len(of) /\ DOMAIN of1 = 1 .. (Len(of) + 1)
        /\ Len(of) \in Nat
    BY <1>1, AppendProperties
  <1>4. data'.is = KindOf(of1)
    BY <1>1, KindAfterAppend
  <1>5. ASSUME NEW i \in DOMAIN of1
        PROVE  SubSeq(of1, 1, i - 1) = SubSeq(of, 1, i - 1)
    <2> HIDE DEF of1
    <2>1. i \in 1 .. (Len(of) + 1)
      BY <1>3, <1>5
    <2>2. \A j \in 1 .. (i - 1) : of1[j] = of[j]
      BY <1>3, <2>1
    <2> QED
      BY <1>1, <1>3, <2>1, <2>2
  <1>6. SubSeq(of, 1, Len(of)) = of
    BY <1>1
  <1> HIDE DEF of1
  <1>7. ASSUME NEW i \in DOMAIN of1
        PROVE  (of1[i] = "coding_str2bytes") <=> (KindOf(SubSeq(of1, 1, i - 1)) = "string")
    <2>1. CASE i = Len(of) + 1
      <3>1. SubSeq(of1, 1, i - 1) = of
        BY <1>3, <1>5, <1>6, <2>1
      <3> QED
        BY <1>1, <1>3, <2>1, <3>1
    <2>2. CASE i \in 1 .. Len(of)
      BY <1>1, <1>3, <1>5, <2>2
    <2> QED
      BY <1>3, <1>7, <2>1, <2>2
  <1>8. lang = "lua" => \A i \in DOMAIN of1 : of1[i] # "z_bytes_zip"
    BY <1>1, <1>3
  <1> QED
    BY <1>2, <1>3, <1>4, <1>7, <1>8 DEF DataInv

\* A decoder gives back the type that the encoder was given.
LEMMA DecodeKeepsKind ==
  ASSUME DataInv, data.of # <<"failed">>, data.of # <<>>, lang' = lang,
         data'.of = SubSeq(data.of, 1, Len(data.of) - 1),
         data'.is = IF data.of[Len(data.of)] = "coding_str2bytes" THEN "string" ELSE "bytes"
  PROVE  DataInv'
  <1> DEFINE of == data.of
             of1 == SubSeq(of, 1, Len(of) - 1)
  <1>1. /\ of \in Seq(Lasting) /\ of # <<>>
        /\ \A i \in DOMAIN of : (of[i] = "coding_str2bytes") <=> (KindOf(SubSeq(of, 1, i - 1)) = "string")
        /\ lang = "lua" => \A i \in DOMAIN of : of[i] # "z_bytes_zip"
    BY DEF DataInv
  <1>2. data'.of = of1 /\ data'.is = IF of[Len(of)] = "coding_str2bytes" THEN "string" ELSE "bytes"
    OBVIOUS
  <1> HIDE DEF of
  <1>3. Len(of) \in Nat \ {0} /\ DOMAIN of = 1 .. Len(of)
    BY <1>1
  <1>4. /\ of1 \in Seq(Lasting) /\ Len(of1) = Len(of) - 1
        /\ \A i \in 1 .. (Len(of) - 1) : of1[i] = of[i]
        /\ DOMAIN of1 = 1 .. (Len(of) - 1)
    BY <1>1, <1>3
  <1>5. data'.is = KindOf(of1)
    <2>1. KindOf(of1) \in {"string", "bytes"}
      BY DEF KindOf
    <2>2. (of[Len(of)] = "coding_str2bytes") <=> (KindOf(of1) = "string")
      BY <1>1, <1>3
    <2> QED
      BY <1>2, <2>1, <2>2
  <1>6. ASSUME NEW i \in DOMAIN of1
        PROVE  SubSeq(of1, 1, i - 1) = SubSeq(of, 1, i - 1)
    <2> HIDE DEF of1
    <2>1. i \in 1 .. (Len(of) - 1)
      BY <1>4, <1>6
    <2>2. \A j \in 1 .. (i - 1) : of1[j] = of[j]
      BY <1>3, <1>4, <2>1
    <2> QED
      BY <1>1, <1>3, <1>4, <2>1, <2>2
  <1> HIDE DEF of1
  <1>7. ASSUME NEW i \in DOMAIN of1
        PROVE  (of1[i] = "coding_str2bytes") <=> (KindOf(SubSeq(of1, 1, i - 1)) = "string")
    <2>1. i \in DOMAIN of /\ of1[i] = of[i]
      BY <1>3, <1>4, <1>7
    <2>2. (of[i] = "coding_str2bytes") <=> (KindOf(SubSeq(of, 1, i - 1)) = "string")
      BY <1>1, <2>1
    <2> QED
      BY <1>6, <2>1, <2>2
  <1>8. lang = "lua" => \A i \in DOMAIN of1 : of1[i] # "z_bytes_zip"
    BY <1>1, <1>3, <1>4
  <1> QED
    BY <1>2, <1>4, <1>5, <1>7, <1>8 DEF DataInv

\* The functions a script converts with, sorted.
LEMMA ConverterNames ==
  /\ Encoders \cup Decoders = Converters \cup RsaConverters \cup {"z_bytes_unzip"}
  /\ Encoders \cap Decoders = {}
  /\ Encoders \cap Converters = Lasting
  /\ Decoders \cap Converters =
       {"coding_bytes2str", "coding_hex_str2bytes", "crypto_aes_decrypt", "crypto_aes_gcm_decrypt",
        "crypto_base64_decode"}
  /\ Encoders \cap TakesText = {"coding_str2bytes"}
  BY DecoderNames DEF Encoders, Converters, TakesText, TakesBytes, RsaConverters, Lasting

\* The type a decoder takes is that of its encoder's result.
LEMMA UndoneKinds ==
  ASSUME NEW of, of # <<>>, NEW fn \in Decoders, of[Len(of)] = Undoes(fn)
  PROVE  /\ fn = "z_bytes_unzip" => KindOf(of) = "string" /\ of[Len(of)] = "z_bytes_zip"
         /\ fn \in Converters => KindOf(of) = IF fn \in TakesText THEN "string" ELSE "bytes"
         /\ (fn \in MakesText) <=> (of[Len(of)] = "coding_str2bytes")
  <1>1. Undoes(fn) = CASE fn = "coding_bytes2str"       -> "coding_str2bytes"
                       [] fn = "coding_hex_str2bytes"   -> "coding_hex_bytes2str"
                       [] fn = "crypto_aes_decrypt"     -> "crypto_aes_encrypt"
                       [] fn = "crypto_aes_gcm_decrypt" -> "crypto_aes_gcm_encrypt"
                       [] fn = "crypto_rsa_decrypt"     -> "crypto_rsa_encrypt"
                       [] fn = "crypto_base64_decode"   -> "crypto_base64_encode"
                       [] fn = "z_bytes_unzip"          -> "z_bytes_zip"
                       [] OTHER                         -> "none"
    BY DEF Undoes
  <1>2. KindOf(of) = IF of[Len(of)] \in {"coding_hex_bytes2str", "z_bytes_zip"}
                     THEN "string" ELSE "bytes"
    BY DEF KindOf
  <1>3. fn \in {"coding_bytes2str", "coding_hex_str2bytes", "crypto_aes_decrypt",
                "crypto_aes_gcm_decrypt", "crypto_rsa_decrypt", "crypto_base64_decode",
                "z_bytes_unzip"}
    BY DecoderNames
  <1> QED
    BY <1>1, <1>2, <1>3 DEF Converters, TakesText, TakesBytes, MakesText

\* A conversion that does not get through, or undoes something else, fails.
LEMMA AppliedFails ==
  ASSUME lang \in {"js", "lua"}, DataInv, NEW fn \in Encoders \cup Decoders, Apply(fn),
         fn \notin Converters \/ (lang = "lua" /\ fn = "z_bytes_zip")
  PROVE  data'.of = <<"failed">> /\ data'.is \in {"string", "bytes"}
  <1> DEFINE wrap == Lib(lang)[fn]
             out == Outcome(Api[wrap.calls], Filled(wrap, data))
  <1>1. data' = [is |-> InHand(wrap),
                 of |-> IF out = "called" THEN Convert(wrap.calls, data.of) ELSE <<"failed">>]
    BY DEF Apply, Applied
  <1> HIDE DEF out, wrap
  <1>2. CASE fn \in RsaConverters
    <2>1. out # "called"
      BY <1>2, RsaNeverArrives DEF out, wrap
    <2>2. wrap.calls = fn /\ wrap.back = "parsed"
      <3>1. wrap = JsCrypto[fn]
        BY <1>2, ConverterWrappers DEF wrap
      <3>2. JsCrypto[fn].calls = fn
        BY <1>2 DEF JsCrypto, Wrap, RsaConverters
      <3> QED
        BY <1>2, <3>1, <3>2, ConverterBacks
    <2>3. InHand(wrap) = "bytes"
      BY <1>2, <2>2, ConverterGives DEF InHand, RsaConverters
    <2> QED
      BY <1>1, <2>1, <2>3
  <1>3. CASE fn = "z_bytes_unzip"
    <2>1. data.is = "string"
      <3>1. fn \notin Encoders /\ fn \in Decoders
        BY <1>3, DecoderNames DEF Encoders
      <3>2. data.of # <<"failed">> /\ data.of # <<>> /\ data.of[Len(data.of)] = Undoes(fn)
        BY <3>1 DEF Apply
      <3> QED
        BY <1>3, <3>1, <3>2, UndoneKinds DEF DataInv
    <2>2. out # "called"
      BY <1>3, <2>1, TextIsNotUnzipped DEF out, wrap
    <2>3. InHand(wrap) \in {"string", "bytes"}
      <3>1. wrap.calls = "z_bytes_unzip"
        <4>1. JsZBytes["z_bytes_unzip"].calls = "z_bytes_unzip"
          BY DEF JsZBytes, Wrap
        <4> QED
          BY <1>3, <4>1, ConverterWrappers, ConverterBacks DEF Zippers, wrap
      <3> QED
        BY <3>1, ConverterGives DEF InHand
    <2> QED
      BY <1>1, <2>2, <2>3
  <1>4. CASE lang = "lua" /\ fn = "z_bytes_zip"
    <2>1. wrap.calls = "z_bytes_unzip" /\ wrap.back = "parsed"
      BY <1>4, ConverterWrappers, ConverterBacks DEF Zippers, wrap
    <2>2. data.of # <<"failed">>
      BY DEF Apply
    <2>3. data.of # <<>> => data.of[Len(data.of)] # "z_bytes_zip"
      <3>1. data.of \in Seq(Lasting) /\ \A i \in DOMAIN data.of : data.of[i] # "z_bytes_zip"
        BY <1>4, <2>2 DEF DataInv
      <3>2. data.of # <<>> => Len(data.of) \in DOMAIN data.of
        BY <3>1
      <3> QED
        BY <3>1, <3>2
    <2>4. Convert("z_bytes_unzip", data.of) = <<"failed">>
      <3>1. Undoes("z_bytes_unzip") = "z_bytes_zip"
        BY DEF Undoes
      <3> QED
        BY <2>3, <3>1 DEF Convert, Encoders
    <2>5. InHand(wrap) = "bytes"
      BY <2>1, ConverterGives DEF InHand
    <2> QED
      BY <1>1, <2>1, <2>4, <2>5
  <1> QED
    BY <1>2, <1>3, <1>4, ConverterNames

\* Every other conversion does what its name says.
LEMMA AppliedConverts ==
  ASSUME lang \in {"js", "lua"}, DataInv, NEW fn \in (Encoders \cup Decoders) \cap Converters,
         Apply(fn), ~(lang = "lua" /\ fn = "z_bytes_zip")
  PROVE  /\ data.of # <<"failed">>
         /\ data'.is = IF fn \in MakesText THEN "string" ELSE "bytes"
         /\ fn \in Encoders =>
              /\ (fn = "coding_str2bytes") <=> (data.is = "string")
              /\ data'.of = Append(data.of, fn)
         /\ fn \notin Encoders =>
              /\ data.of # <<>> /\ data.of[Len(data.of)] = Undoes(fn)
              /\ data'.of = SubSeq(data.of, 1, Len(data.of) - 1)
  <1> DEFINE wrap == Lib(lang)[fn]
             out == Outcome(Api[wrap.calls], Filled(wrap, data))
  <1>1. data' = [is |-> InHand(wrap),
                 of |-> IF out = "called" THEN Convert(wrap.calls, data.of) ELSE <<"failed">>]
    BY DEF Apply, Applied
  <1>2. /\ data.of # <<"failed">>
        /\ fn \in Encoders => ((fn = "coding_str2bytes") <=> (data.is = "string"))
        /\ fn \notin Encoders => data.of # <<>> /\ data.of[Len(data.of)] = Undoes(fn)
    BY DEF Apply
  <1>3. data.is = KindOf(data.of) /\ data.is \in {"string", "bytes"}
    BY <1>2 DEF DataInv, KindOf
  <1>4. wrap.calls = fn /\ InHand(wrap) = IF fn \in MakesText THEN "string" ELSE "bytes"
    BY ConverterFits
  <1>5. fn \in TakesText => data.is = "string"
    BY <1>2, <1>3, ConverterNames, UndoneKinds
  <1>6. fn \in TakesBytes => data.is = "bytes"
    <2>1. TakesText \cap TakesBytes = {}
      BY DEF TakesText, TakesBytes
    <2> QED
      BY <1>2, <1>3, <2>1, ConverterNames, UndoneKinds
  <1>7. out = "called"
    BY <1>4, <1>5, <1>6, FilledArrives
  <1> HIDE DEF out, wrap
  <1>8. data'.of = Convert(fn, data.of) /\ data'.is = InHand(wrap)
    BY <1>1, <1>4, <1>7
  <1> QED
    BY <1>2, <1>4, <1>8 DEF Convert

\* Either way the invariant of the data holds.
LEMMA ApplyKeepsKind ==
  ASSUME lang \in {"js", "lua"}, DataInv, NEW fn \in Encoders \cup Decoders, Apply(fn)
  PROVE  DataInv' /\ data'.is \in {"string", "bytes"}
  <1>1. lang' = lang
    BY DEF Apply, session
  <1>2. CASE fn \notin Converters \/ (lang = "lua" /\ fn = "z_bytes_zip")
    BY <1>2, AppliedFails DEF DataInv
  <1>3. CASE fn \in Converters /\ ~(lang = "lua" /\ fn = "z_bytes_zip")
    <2>1. CASE fn \in Encoders
      <3>1. fn \in Lasting
        BY <1>3, <2>1, ConverterNames
      <3> QED
        BY <1>1, <1>3, <2>1, <3>1, AppliedConverts, EncodeKeepsKind
    <2>2. CASE fn \notin Encoders
      <3>1. fn \in Decoders
        BY <2>2
      <3>2. data.of[Len(data.of)] = "coding_str2bytes" <=> fn \in MakesText
        BY <1>3, <2>2, <3>1, AppliedConverts, UndoneKinds
      <3> QED
        BY <1>1, <1>3, <2>2, <3>2, AppliedConverts, DecodeKeepsKind
    <2> QED
      BY <2>1, <2>2
  <1> QED
    BY <1>2, <1>3

\* The action of RoundTrips.
ConvertsBack ==
  trail' # trail /\ ~Unlike(last'.fn) /\ (\A i \in DOMAIN data.of : ~Unlike(data.of[i])) =>
    /\ data'.of = IF last'.fn \in Encoders THEN Append(data.of, last'.fn)
                  ELSE SubSeq(data.of, 1, Len(data.of) - 1)
    /\ data'.is = Kind(data'.of)

\* A conversion takes back the one it undoes, and gives the type its data had.
LEMMA ApplyConvertsBack ==
  ASSUME lang \in {"js", "lua"}, DataInv, NEW fn \in Encoders \cup Decoders, Apply(fn)
  PROVE  ConvertsBack
  <1> SUFFICES ASSUME ~Unlike(fn), \A i \in DOMAIN data.of : ~Unlike(data.of[i])
               PROVE  /\ data'.of = IF fn \in Encoders THEN Append(data.of, fn)
                                    ELSE SubSeq(data.of, 1, Len(data.of) - 1)
                      /\ data'.is = Kind(data'.of)
    <2>1. last'.fn = fn
      BY DEF Apply, NoCall
    <2> QED
      BY <2>1 DEF ConvertsBack
  <1>1. fn \in Converters /\ fn # "z_bytes_zip"
    BY ConverterNames DEF Unlike, Rsa, RsaConverters
  <1>2. /\ data.of # <<"failed">>
        /\ fn \in Encoders => data'.of = Append(data.of, fn)
        /\ fn \notin Encoders => data.of # <<>> /\ data'.of = SubSeq(data.of, 1, Len(data.of) - 1)
    BY <1>1, AppliedConverts
  <1>3. data.of \in Seq(Lasting)
    BY <1>2 DEF DataInv
  <1>4. /\ data'.of \in Seq(Lasting)
        /\ \A i \in DOMAIN data'.of : ~Unlike(data'.of[i])
    <2> DEFINE of == data.of
    <2>1. CASE fn \in Encoders
      <3>1. fn \in Lasting /\ data'.of = Append(of, fn)
        BY <1>1, <1>2, <2>1, ConverterNames
      <3> HIDE DEF of
      <3>2. /\ Append(of, fn) \in Seq(Lasting)
            /\ \A i \in DOMAIN Append(of, fn) :
                 \/ i \in DOMAIN of /\ Append(of, fn)[i] = of[i]
                 \/ Append(of, fn)[i] = fn
        BY <1>3, <3>1 DEF of
      <3> QED
        BY <3>1, <3>2 DEF of
    <2>2. CASE fn \notin Encoders
      <3>1. data'.of = SubSeq(of, 1, Len(of) - 1) /\ of # <<>>
        BY <1>2, <2>2
      <3> HIDE DEF of
      <3>2. /\ SubSeq(of, 1, Len(of) - 1) \in Seq(Lasting)
            /\ \A i \in DOMAIN SubSeq(of, 1, Len(of) - 1) :
                 i \in DOMAIN of /\ SubSeq(of, 1, Len(of) - 1)[i] = of[i]
        BY <1>3, <3>1 DEF of
      <3> QED
        BY <3>1, <3>2 DEF of
    <2> QED
      BY <2>1, <2>2
  <1>5. data'.of # <<"failed">>
    <2>1. "failed" \notin Lasting
      BY DEF Lasting, Encoders
    <2>2. \A s \in Seq(Lasting) : s # <<"failed">>
      BY <2>1
    <2> QED
      BY <1>4, <2>2
  <1>6. data'.is = KindOf(data'.of)
    BY <1>5, ApplyKeepsKind DEF DataInv
  <1>7. KindOf(data'.of) = Kind(data'.of)
    <2>1. data'.of # <<>> => Len(data'.of) \in DOMAIN data'.of
      BY <1>4
    <2>2. data'.of # <<>> => data'.of[Len(data'.of)] # "z_bytes_zip"
      BY <1>4, <2>1 DEF Unlike
    <2> QED
      BY <2>2 DEF KindOf, Kind
  <1> QED
    BY <1>2, <1>6, <1>7

\* The inductive invariant.
IInv == CallInv /\ DataInv /\ ConvertedInv

\* The initial states satisfy the invariant.
LEMMA InitIInv == Init => IInv
  <1> SUFFICES ASSUME Init
               PROVE  IInv
    OBVIOUS
  <1>1. data.is = "string" /\ data.of = <<>> /\ trail = 0
    BY DEF Init
  <1>2. DataInv
    BY <1>1 DEF DataInv, KindOf
  <1> QED
    BY <1>1, <1>2, InitCallInv, ScriptAssumption DEF IInv, ConvertedInv

\* Nothing else touches the data.
LEMMA OnlyApplyConverts ==
  ASSUME [Next]_vars, ~ \E fn \in Encoders \cup Decoders : Apply(fn)
  PROVE  lang' = lang /\ data' = data /\ trail' = trail
  <1>1. ASSUME NEW fn, Call(fn) \/ Submit(fn)
        PROVE  lang' = lang /\ data' = data /\ trail' = trail
    BY <1>1 DEF Call, Submit, session
  <1>2. CASE WorkerStep
    BY <1>2 DEF WorkerStep, WorkerBegins, WorkerEnds, session
  <1>3. CASE StreamThrows
    BY <1>3 DEF StreamThrows, session
  <1>4. ASSUME NEW z, StreamInit(z) \/ StreamStep(z)
        PROVE  lang' = lang /\ data' = data /\ trail' = trail
    BY <1>4 DEF StreamInit, StreamStep, StreamCall, session
  <1>5. CASE UNCHANGED vars
    BY <1>5 DEF vars, session
  <1> QED
    BY <1>1, <1>2, <1>3, <1>4, <1>5 DEF Next, ScriptStep, Stream, DataStep

\* Every step keeps the invariant, and a conversion round-trips.
LEMMA NextKeepsIInv == IInv /\ [Next]_vars => IInv' /\ ConvertsBack
  <1> SUFFICES ASSUME IInv, [Next]_vars
               PROVE  IInv' /\ ConvertsBack
    OBVIOUS
  <1>1. CallInv' /\ lang \in {"js", "lua"}
    BY NextKeepsCallInv, EngineAssumed DEF IInv, CallInv
  <1>2. ASSUME NEW fn \in Encoders \cup Decoders, Apply(fn)
        PROVE  DataInv' /\ ConvertedInv' /\ ConvertsBack
    <2>1. DataInv' /\ data'.is \in {"string", "bytes"}
      BY <1>1, <1>2, ApplyKeepsKind DEF IInv
    <2>2. trail' \in 0 .. MaxTrail
      BY <1>2, ScriptAssumption DEF IInv, ConvertedInv, Apply
    <2>3. ConvertsBack
      BY <1>1, <1>2, ApplyConvertsBack DEF IInv
    <2> QED
      BY <2>1, <2>2, <2>3 DEF ConvertedInv
  <1>3. CASE ~ \E fn \in Encoders \cup Decoders : Apply(fn)
    <2>1. lang' = lang /\ data' = data /\ trail' = trail
      BY <1>3, OnlyApplyConverts
    <2> QED
      BY <1>1, <2>1 DEF IInv, DataInv, ConvertedInv, ConvertsBack
  <1> QED
    BY <1>1, <1>2, <1>3 DEF IInv

\* The invariant holds in every session (ScriptAPI.cxx, DynXX.js, DynXX.lua).
THEOREM Invariance == Spec => []IInv
  BY InitIInv, NextKeepsIInv, PTL DEF Spec

\* Every variable of a session keeps its type, for any bound on conversions.
THEOREM TypeCorrectness == Spec => []TypeOK
  <1>1. IInv => TypeOK
    BY DEF IInv, CallInv, SessionInv, TypesOfHandles, HandleTexts, ObjectStates, LastInv,
           ConvertedInv, TypeOK
  <1> QED
    BY <1>1, Invariance, PTL

\* However often a script converts its data, a decoder takes back its encoder and the
\* script gets the type the next conversion takes (coding, AES, base64: DynXX.js,
\* DynXX.lua, ScriptAPI.cxx), but for the functions that Unlike lists.
THEOREM ConversionsRoundTrip == Spec => RoundTrips
  <1>1. IInv /\ [Next]_vars => [ConvertsBack]_vars
    BY NextKeepsIInv
  <1>2. [][ConvertsBack]_vars <=> RoundTrips
    BY PTL DEF ConvertsBack, RoundTrips
  <1> QED
    BY <1>1, <1>2, Invariance, PTL DEF Spec
=============================================================================
