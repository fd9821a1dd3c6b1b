----------------------- MODULE CachedTokenSourceProofs -----------------------
(***************************************************************************)
(* Type correctness of the gcp auth provider model, for every value of   *)
(* the constants that TokenAssumption allows.                             *)
(***************************************************************************)
EXTENDS CachedTokenSource, TLAPS

USE DEF TokenAssumption

\* Every token a step can store lies in Tokens.
LEMMA TokensContain ==
  ASSUME TokenAssumption
  PROVE  /\ NoConfig.from \in Tokens
         /\ \A a \in {-1, 0}, e \in TimeStrings : newCachedTokenSource(a, e) \in Tokens
         /\ \A i \in 0..MaxFetches - 1, t \in 1..MaxTime :
               [id |-> i + 1, exp |-> t + TTL] \in Tokens
BY DEF NoConfig, Tokens, newCachedTokenSource, ParseTime, TimeStrings,
       NoString

\* Parsing the command's output gives an expiry within the clock's range.
LEMMA CmdTokenTyped ==
  ASSUME TokenAssumption
  PROVE  \A o \in Outputs : /\ cmdToken(o).exp \in 0..MaxTime
                            /\ cmdToken(o).empty \in BOOLEAN
                            /\ cmdToken(o).err \in BOOLEAN
<1> SUFFICES ASSUME NEW o \in Outputs
             PROVE /\ cmdToken(o).exp \in 0..MaxTime
                   /\ cmdToken(o).empty \in BOOLEAN
                   /\ cmdToken(o).err \in BOOLEAN
  OBVIOUS
<1>1. ParseTime(timeFmt, o.expiry) \in 0..MaxTime
  BY DEF Outputs, ParseTime, TimeStrings, NoString
<1>2. CASE ~o.exit \/ ~o.json \/ o.token = "missing" \/ o.expiry = NoString
  <2>1. cmdToken(o) = [err |-> TRUE, empty |-> TRUE, exp |-> 0]
    BY <1>2 DEF cmdToken
  <2>2. QED
    BY <2>1
<1>3. CASE ~(~o.exit \/ ~o.json \/ o.token = "missing" \/ o.expiry = NoString)
  <2>1. cmdToken(o) = [err |-> FALSE, empty |-> o.token = "empty",
                       exp |-> ParseTime(timeFmt, o.expiry)]
    BY <1>3 DEF cmdToken
  <2>2. QED
    BY <1>1, <2>1
<1>4. QED
  BY <1>2, <1>3

\* The configs update() builds, and the empty one, are well typed.
LEMMA ConfigsTyped ==
  ASSUME TokenAssumption
  PROVE  /\ NoConfig \in Configs
         /\ \A tok \in Tokens : updatedConfig(tok) \in Configs
BY DEF NoConfig, NoString, updatedConfig, FormatTime, Configs, Tokens, Layouts

\* A token loaded from a well-typed config is well typed.
LEMMA LoadTyped ==
  ASSUME TokenAssumption
  PROVE  \A cfg \in Configs : newCachedTokenSource(cfg.access, cfg.expiry) \in Tokens
BY DEF newCachedTokenSource, ParseTime, Configs, Tokens

LEMMA TypeOKInit ==
  ASSUME TokenAssumption, Init PROVE TypeOK
BY TokensContain, ConfigsTyped DEF Init, TypeOK

LEMMA TypeOKStep ==
  ASSUME TokenAssumption, TypeOK, [Next]_vars PROVE TypeOK'
<1>1. ASSUME NEW c \in Callers, cachedToken(c) PROVE TypeOK'
  BY <1>1 DEF cachedToken, TypeOK
<1>2. ASSUME NEW c \in Callers, sourceToken(c) PROVE TypeOK'
  <2>1. issued \in 0..MaxFetches /\ now \in 1..MaxTime
    BY DEF TypeOK
  <2>3. CASE CmdPath = "absent"
            /\ issued < MaxFetches
            /\ issued' = issued + 1
            /\ local' = [local EXCEPT ![c] = [id |-> issued + 1, exp |-> now + TTL]]
            /\ pc' = [pc EXCEPT ![c] = "update"]
    <3>1. [id |-> issued + 1, exp |-> now + TTL] \in Tokens
      BY <2>1, <2>3, TokensContain
    <3>2. QED
      BY <1>2, <2>1, <2>3, <3>1 DEF sourceToken, TypeOK
  <2>4. CASE \E o \in CmdOutputs :
               LET r == cmdToken(o) IN
               /\ CmdPath = "set" /\ ~r.err
               /\ issued < MaxFetches
               /\ issued' = IF r.empty THEN issued ELSE issued + 1
               /\ local' = [local EXCEPT ![c] =
                              [id |-> IF r.empty THEN -1 ELSE issued + 1, exp |-> r.exp]]
               /\ pc' = [pc EXCEPT ![c] = "update"]
    <3>1. PICK o \in CmdOutputs :
               LET r == cmdToken(o) IN
               /\ CmdPath = "set" /\ ~r.err
               /\ issued < MaxFetches
               /\ issued' = IF r.empty THEN issued ELSE issued + 1
               /\ local' = [local EXCEPT ![c] =
                              [id |-> IF r.empty THEN -1 ELSE issued + 1, exp |-> r.exp]]
               /\ pc' = [pc EXCEPT ![c] = "update"]
      BY <2>4
    <3>2. cmdToken(o).exp \in 0..MaxTime /\ cmdToken(o).empty \in BOOLEAN
      BY CmdTokenTyped
    <3>3. issued' \in 0..MaxFetches
      BY <2>1, <3>1, <3>2
    <3>4. local' \in [Callers -> Tokens]
      BY <2>1, <3>1, <3>2 DEF TypeOK, Tokens
    <3>5. QED
      BY <1>2, <3>1, <3>3, <3>4 DEF sourceToken, TypeOK
  <2>5. CASE /\ pc' = [pc EXCEPT ![c] = "idle"]
             /\ UNCHANGED <<issued, local>>
    BY <1>2, <2>5 DEF sourceToken, TypeOK
  <2>6. QED
    BY <1>2, <2>3, <2>4, <2>5 DEF sourceToken
<1>3. ASSUME NEW c \in Callers, update(c) PROVE TypeOK'
  BY <1>3, ConfigsTyped DEF update, TypeOK
<1>4. ASSUME NEW c \in Callers, Persist(c) PROVE TypeOK'
  BY <1>4 DEF Persist, TypeOK
<1>5. CASE Restart
  BY <1>5, LoadTyped DEF Restart, TypeOK
<1>6. CASE Tick
  BY <1>6 DEF Tick, TypeOK
<1>7. CASE UNCHANGED vars
  BY <1>7 DEF vars, TypeOK
<1>8. QED
  BY <1>1, <1>2, <1>3, <1>4, <1>5, <1>6, <1>7 DEF Next

(* The model of the gcp provider never leaves its types: every token it   *)
(* caches, fetches, parses, persists or reloads is a well-formed token,   *)
(* whatever the clock bound, TTL, fetch and restart bounds, and the       *)
(* outputs the token command may print.                                    *)
THEOREM TokenTypeCorrect == TokenAssumption => (Spec => []TypeOK)
<1> SUFFICES ASSUME TokenAssumption PROVE Spec => []TypeOK
  OBVIOUS
<1>1. Init => TypeOK
  BY TypeOKInit
<1>2. TypeOK /\ [Next]_vars => TypeOK'
  BY TypeOKStep
<1>3. QED
  BY <1>1, <1>2, PTL DEF Spec

=============================================================================
