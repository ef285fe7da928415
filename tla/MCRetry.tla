------------------------------- MODULE MCRetry ------------------------------
(* Model-checking instances of Retry: the options callers pass.            *)
EXTENDS Retry

\* Every entry, attempts from none to four, waits that are none, capped and not.
AnyOptions ==
  [entry : Entries, attempts : 0..4, idempotent : BOOLEAN \union {Omitted},
   baseDelay : {0, 1, 2}, maxDelay : {0, 3, Omitted}, factor : {0, 1, 2}, jitter : BOOLEAN,
   sleeper : {"default", "custom"}]
=============================================================================
