--------------------------- MODULE CachedTokenSource ---------------------------
(***************************************************************************)
(* The gcp auth provider of src/plugin/pkg/client/auth/gcp/gcp.go:        *)
(* newGCPAuthProvider picks a token source (the command of cmd-path, or    *)
(* Google's default credentials) and wraps it in a cachedTokenSource.     *)
(* Concurrent Token() calls share accessToken/expiry under lk, fetch from  *)
(* the source outside the lock, and persist the config outside the lock.  *)
(* A process restart loads the persisted config again.                    *)
(*                                                                         *)
(* A token is a record [id, exp]: id -1 is the empty access token, 0 the   *)
(* token of the kubeconfig, n > 0 the n-th token a source issued; exp 0 is *)
(* the zero time.  Time is a counter that the environment advances.  A    *)
(* time string is a record [layout, t]: it parses back to t only with the  *)
(* layout it was written in.                                               *)
(***************************************************************************)
EXTENDS Integers

CONSTANTS
  Callers,      \* goroutines calling Token()
  MaxTime,      \* the clock runs over 1..MaxTime
  TTL,          \* lifetime of a token the default source issues
  ExpiryDelta,  \* oauth2's expiryDelta: a token is expired ExpiryDelta early
  MaxFetches,   \* bound on the tokens the sources hand out
  ConfigKeys,   \* the other keys of the gcp auth-provider config
  HasPersister, \* t.persister != nil
  CmdPath,      \* the config's cmd-path: "absent", "blank" or "set"
  CmdTimeFmt,   \* the config's time-fmt: a layout, or "unset" (empty)
  CmdOutputs,   \* what the token command may print, one output per run
  MaxRestarts   \* bound on process restarts

Layouts == {"RFC3339Nano", "other"}

NoString == [layout |-> "none", t |-> 0]

\* Time strings: a missing key, or a time written in some layout.
TimeStrings == {NoString} \cup [layout : Layouts, t : 1..MaxTime]

\* The command's output, as the parser sees it: whether the command exited
\* 0, whether it is YAML/JSON, and the fields under token-key and expiry-key
\* ("missing" or NoString: the key is missing; "empty": the empty string).
Outputs == [exit : BOOLEAN, json : BOOLEAN, token : {"missing", "empty", "tok"},
            expiry : TimeStrings]

\* What the constants range over (the hypothesis of the proofs).
TokenAssumption ==
  /\ MaxTime \in Nat \ {0}
  /\ TTL \in Nat /\ ExpiryDelta \in Nat /\ MaxFetches \in Nat \ {0}
  /\ MaxRestarts \in Nat
  /\ HasPersister \in BOOLEAN
  /\ CmdPath \in {"absent", "blank", "set"}
  /\ CmdTimeFmt \in {"unset"} \cup Layouts
  /\ CmdOutputs \subseteq Outputs

\* The keys update() writes over the copied config.
TokenKeys == {"access-token", "expiry"}

Tokens == [id : -1..MaxFetches, exp : 0..(MaxTime + TTL)]

\* A config: the key set written, the access token and expiry string
\* written, and (a history field) the token it was written from.
Configs == [keys : SUBSET (ConfigKeys \cup TokenKeys), access : -1..MaxFetches,
            expiry : [layout : Layouts \cup {"none"}, t : 0..(MaxTime + TTL)],
            from : Tokens]

NoConfig == [keys |-> {}, access |-> -1, expiry |-> NoString,
             from |-> [id |-> -1, exp |-> 0]]

VARIABLES
  initial,      \* the token the kubeconfig held when the first process began
  accessToken,  \* t.accessToken and t.expiry, as one token
  now,          \* the clock
  issued,       \* tokens the sources have issued
  pc,           \* where each caller is inside Token()
  local,        \* per caller: the token it read or fetched
  out,          \* per caller: the map update() returned
  persisted,    \* the config last written by the persister
  restarts      \* processes started after the first

vars == <<initial, accessToken, now, issued, pc, local, out, persisted, restarts>>

-----------------------------------------------------------------------------
\* time.Parse(layout, s): the time, or an error that every caller turns into
\* the zero time.
ParseTime(layout, s) == IF s.layout = layout THEN s.t ELSE 0

\* time.Format(time.RFC3339Nano), the zero time included.
FormatTime(t) == [layout |-> "RFC3339Nano", t |-> t]

\* oauth2.Token.Valid(): a non-empty access token that has not expired; a
\* zero expiry never expires.
Valid(tok, t) ==
  /\ tok.id # -1
  /\ tok.exp = 0 \/ ~(tok.exp - ExpiryDelta < t)

\* update(tok): the copied config with the token keys set.
updatedConfig(tok) ==
  [keys |-> ConfigKeys \cup TokenKeys, access |-> tok.id,
   expiry |-> FormatTime(tok.exp), from |-> tok]

\* newCachedTokenSource(gcpConfig["access-token"], gcpConfig["expiry"], ...).
newCachedTokenSource(access, expiry) ==
  [id |-> access, exp |-> ParseTime("RFC3339Nano", expiry)]

\* newCmdTokenSource: an empty time-fmt defaults to RFC3339Nano.
timeFmt == IF CmdTimeFmt = "unset" THEN "RFC3339Nano" ELSE CmdTimeFmt

\* commandTokenSource.Token on one output: an error (the command failed,
\* the output is not JSON, or a key is missing for parseJSONPath), or the
\* access token and its expiry, the zero time when it does not parse.
cmdToken(o) ==
  IF ~o.exit \/ ~o.json \/ o.token = "missing" \/ o.expiry = NoString
  THEN [err |-> TRUE, empty |-> TRUE, exp |-> 0]
  ELSE [err |-> FALSE, empty |-> o.token = "empty", exp |-> ParseTime(timeFmt, o.expiry)]

\* newGCPAuthProvider succeeds: newCmdTokenSource fails on a cmd-path with
\* no fields.  (Missing default credentials fail it the same way; the model
\* assumes they are present.)
newGCPAuthProvider == CmdPath # "blank"

-----------------------------------------------------------------------------
(* The provider's cachedTokenSource: the kubeconfig may hold no token,    *)
(* and its expiry may be missing or in another layout.                    *)
Init ==
  /\ initial \in {newCachedTokenSource(a, e) : a \in {-1, 0}, e \in TimeStrings}
  /\ accessToken = initial
  /\ now = 1
  /\ issued = 0
  /\ pc = [c \in Callers |-> "idle"]
  /\ local = [c \in Callers |-> accessToken]
  /\ out = [c \in Callers |-> NoConfig]
  /\ persisted = NoConfig
  /\ restarts = 0

(* Token() begins with cachedToken(), under lk; a valid token with a      *)
(* non-zero expiry is returned, anything else is refreshed.               *)
cachedToken(c) ==
  /\ newGCPAuthProvider
  /\ pc[c] = "idle"
  /\ local' = [local EXCEPT ![c] = accessToken]
  /\ pc' = [pc EXCEPT ![c] = IF Valid(accessToken, now) /\ accessToken.exp # 0
                             THEN "idle" ELSE "fetch"]
  /\ UNCHANGED <<initial, accessToken, now, issued, out, persisted, restarts>>

(* t.source.Token(), outside the lock: a token, or an error that Token()  *)
(* returns at once.  Without cmd-path the source is Google's; with it,    *)
(* the command runs and its output is parsed.                             *)
sourceToken(c) ==
  /\ pc[c] = "fetch"
  /\ \/ /\ CmdPath = "absent"
        /\ issued < MaxFetches
        /\ issued' = issued + 1
        /\ local' = [local EXCEPT ![c] = [id |-> issued + 1, exp |-> now + TTL]]
        /\ pc' = [pc EXCEPT ![c] = "update"]
     \/ \E o \in CmdOutputs :
          LET r == cmdToken(o) IN
          /\ CmdPath = "set" /\ ~r.err
          /\ issued < MaxFetches
          /\ issued' = IF r.empty THEN issued ELSE issued + 1
          /\ local' = [local EXCEPT ![c] =
                         [id |-> IF r.empty THEN -1 ELSE issued + 1, exp |-> r.exp]]
          /\ pc' = [pc EXCEPT ![c] = "update"]
     \/ /\ pc' = [pc EXCEPT ![c] = "idle"]
        /\ UNCHANGED <<issued, local>>
  /\ UNCHANGED <<initial, accessToken, now, out, persisted, restarts>>

(* update(tok), under lk; Token() then persists the map it returns when   *)
(* there is a persister.                                                  *)
update(c) ==
  /\ pc[c] = "update"
  /\ accessToken' = local[c]
  /\ out' = [out EXCEPT ![c] = updatedConfig(local[c])]
  /\ pc' = [pc EXCEPT ![c] = IF HasPersister THEN "persist" ELSE "idle"]
  /\ UNCHANGED <<initial, now, issued, local, persisted, restarts>>

(* t.persister.Persist(cache), outside lk; its error is only logged.       *)
Persist(c) ==
  /\ pc[c] = "persist"
  /\ persisted' = out[c]
  /\ pc' = [pc EXCEPT ![c] = "idle"]
  /\ UNCHANGED <<initial, accessToken, now, issued, local, out, restarts>>

(* The process exits at any point, abandoning its calls, and a new one    *)
(* builds the provider from the kubeconfig: the persisted config, or the  *)
(* original one when nothing was persisted.                               *)
Restart ==
  /\ newGCPAuthProvider
  /\ restarts < MaxRestarts
  /\ restarts' = restarts + 1
  /\ accessToken' = IF persisted = NoConfig THEN initial
                    ELSE newCachedTokenSource(persisted.access, persisted.expiry)
  /\ pc' = [c \in Callers |-> "idle"]
  /\ UNCHANGED <<initial, now, issued, local, out, persisted>>

\* The clock advances.
Tick ==
  /\ now < MaxTime
  /\ now' = now + 1
  /\ UNCHANGED <<initial, accessToken, issued, pc, local, out,
                 persisted, restarts>>

Next ==
  \/ \E c \in Callers : cachedToken(c) \/ sourceToken(c) \/ update(c) \/ Persist(c)
  \/ Restart
  \/ Tick

Spec == Init /\ [][Next]_vars

-----------------------------------------------------------------------------
TypeOK ==
  /\ initial \in Tokens
  /\ accessToken \in Tokens
  /\ now \in 1..MaxTime
  /\ issued \in 0..MaxFetches
  /\ pc \in [Callers -> {"idle", "fetch", "update", "persist"}]
  /\ local \in [Callers -> Tokens]
  /\ out \in [Callers -> Configs]
  /\ persisted \in Configs
  /\ restarts \in 0..MaxRestarts

\* TestCachedTokenSource: once every Token() call has returned, the
\* persisted config is the original config plus the token the cache holds.
PersistedMatchesCache ==
  (persisted # NoConfig /\ \A c \in Callers : pc[c] = "idle")
    => /\ persisted.keys = ConfigKeys \cup TokenKeys
       /\ persisted.from = accessToken

=============================================================================
