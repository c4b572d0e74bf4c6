------------------------------ MODULE MCLaunch ------------------------------
(***************************************************************************)
(* Launch with the constants of its TLC runs.                              *)
(***************************************************************************)
EXTENDS Launch

Setup(app, key, value) == [app |-> app, key |-> key, value |-> value]

\* A required setting in two scopes, blanked in one and stated in a scope that is
\* not the worker's, and the two rows of the logstore.
Rows ==
  {Setup("*", "AIDA_LLM_MODEL", "m1"), Setup("aida-agent", "AIDA_LLM_MODEL", "m2"),
   Setup("aida-agent", "AIDA_LLM_MODEL", ""), Setup("other", "AIDA_LLM_MODEL", "m3"),
   Setup("aida", "LOGSTORE_ENABLED", "1"), Setup("*", "LOGSTORE_KEY_JSON", "key")}

\* An environment that states everything, with values of its own.
Environments ==
  {[k \in Setting \cup {"LOGSTORE_KEY_FILE"} |->
      CASE k = "AIDA_LLM_MODEL" -> "own" [] k = "LOGSTORE_ENABLED" -> "1"
        [] k = "LOGSTORE_KEY_JSON" -> "key" [] k = "LOGSTORE_KEY_FILE" -> "stale"]}
=============================================================================
