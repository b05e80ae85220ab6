----------------------------- MODULE MCScripts -----------------------------
(* The scripts' calls, of both engines and all topics. *)
EXTENDS ScriptCalls

AllLangs  == {"js", "lua"}
AllTopics == DOMAIN Functions
SqliteOnly == {"sqlite"}
JsOnly == {"js"}
=============================================================================
