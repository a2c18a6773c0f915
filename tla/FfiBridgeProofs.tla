---------------------------- MODULE FfiBridgeProofs ----------------------------
(***************************************************************************)
(* What a VALUE stands for in FfiRegistry, for any number of threads,      *)
(* strings, blocks and classes.  AnswersResolve is not inductive alone: a  *)
(* later Insert could overwrite an answered VALUE, and the pool could hand *)
(* out one that stands for something else.  Neither happens because a      *)
(* VALUE is in one thread's hands, and in no table, until it is inserted.  *)
(*                                                                         *)
(* And whose self a method sees in FfiDispatch, for every nesting of calls *)
(* and every class hierarchy: NoForeignSelf is inductive with the types.   *)
(***************************************************************************)
EXTENDS MCBridge, FiniteSetTheorems, TLAPS

\* What a call still needs of its arguments is there.
HasArguments ==
  \A t \in Threads :
    /\ regPc[t] \in {"lookup", "pool", "answer"} => content[t] \in Contents
    /\ regPc[t] \in {"alloc", "insert"} /\ kind[t] # "object" => content[t] \in Contents
    /\ kind[t] = "object" => class[t] \in Classes
    /\ kind[t] = "block" => capture[t] \in Captures
    /\ regPc[t] = "class" => kind[t] = "object"
    /\ regPc[t] = "store" => kind[t] = "block"
    /\ regPc[t] = "answer" => kind[t] = "copy"

\* VALUEs not given out yet are in no table and in no answer.
Unissued ==
  /\ \A v \in Values : v > nextId => objects[v] = Nothing
  /\ \A c \in Contents : pool[c] # Nothing => pool[c] <= nextId
  /\ \A a \in answered : a[2] <= nextId
  /\ \A t \in Threads :
       /\ regPc[t] \in {"insert", "pool", "answer", "class", "store"} => value[t] \in Values
       /\ regPc[t] \in {"insert", "pool", "answer"} => value[t] <= nextId

\* A VALUE that is allocated and not inserted yet is known to its thread alone.
Private ==
  \A t \in Threads : regPc[t] = "insert" =>
    /\ \A a \in answered : a[2] # value[t]
    /\ \A c \in Contents : pool[c] # value[t]
    /\ \A u \in Threads \ {t} : regPc[u] \in {"insert", "pool", "answer"} => value[u] # value[t]

\* v stands for c, or was swept.
Resolves(v, c) == objects[v] = c \/ v \in swept

\* What the pool holds, and what is about to be put into it or answered, resolves.
PoolResolves ==
  /\ \A c \in Contents : pool[c] # Nothing => Resolves(pool[c], c)
  /\ \A t \in Threads : regPc[t] \in {"pool", "answer"} => Resolves(value[t], content[t])

\* The inductive invariant.
RegInv ==
  /\ RegTypeOK
  /\ HasArguments
  /\ Unissued
  /\ Private
  /\ PoolResolves
  /\ AnswersResolve

-----------------------------------------------------------------------------
\* The program starts with empty tables.
LEMMA RegInitInv == RegInit => RegInv
BY NothingAssumption, MaxValuesAssumption
   DEF RegInit, RegInv, RegTypeOK, HasArguments, Unissued, Private, PoolResolves,
       Resolves, AnswersResolve, Values

\* Returning a string, or going on to store a block, changes the call's own
\* variables and adds one answer.
LEMMA StringDoneTypes ==
  ASSUME RegTypeOK, NEW t \in Threads, NEW v \in Values, content[t] \in Contents,
         StringDone(t, v)
  PROVE  /\ regPc' \in [Threads -> {"idle", "lookup", "alloc", "insert", "pool", "answer", "store",
                                    "class", "sweep"}]
         /\ kind' \in [Threads -> {"string", "copy", "block", "object"}]
         /\ content' \in [Threads -> Contents \cup {Nothing}]
         /\ capture' \in [Threads -> Captures \cup {Nothing}]
         /\ class' \in [Threads -> Classes \cup {Nothing}]
         /\ value' \in [Threads -> Values \cup {Nothing}]
         /\ answered' \in SUBSET (Contents \X Values)
<1> USE DEF RegTypeOK, StringDone, RegGoto, RegReturn, callVars
<1>1. answered' \in SUBSET (Contents \X Values)
  OBVIOUS
<1>2. CASE kind[t] \in {"string", "copy"}
  BY <1>1, <1>2
<1>3. CASE kind[t] = "block"
  BY <1>1, <1>3
<1> QED BY <1>2, <1>3

\* Every operation keeps the types; an answer is a known string and a VALUE.
LEMMA RegTypes == RegInv /\ [RegNext]_regVars => RegTypeOK'
<1> SUFFICES ASSUME RegInv, [RegNext]_regVars PROVE RegTypeOK'
  OBVIOUS
<1> USE MaxValuesAssumption DEF RegInv, RegTypeOK, Values, RegGoto, RegReturn
<1>1. CASE UNCHANGED regVars
  BY <1>1 DEF regVars, tables, callVars, histories
<1>2. ASSUME NEW t \in Threads, RegCall(t) PROVE RegTypeOK'
  <2>1. CASE StrToValue(t)
    BY <2>1 DEF StrToValue, tables, histories
  <2>5. CASE JdrubyToValue(t)
    BY <2>5 DEF JdrubyToValue, tables, histories
  <2>2. CASE BlockCreate(t)
    BY <2>2 DEF BlockCreate, tables, histories
  <2>3. CASE NewObject(t)
    BY <2>3 DEF NewObject, tables, histories
  <2>4. CASE SweepStart(t)
    BY <2>4 DEF SweepStart, tables, callVars, histories
  <2> QED BY <1>2, <2>1, <2>2, <2>3, <2>4, <2>5 DEF RegCall
<1>3. ASSUME NEW t \in Threads, PoolLookup(t) PROVE RegTypeOK'
  <2>1. content[t] \in Contents
    BY <1>3 DEF PoolLookup, HasArguments
  <2>2. CASE pool[content[t]] = Nothing
    BY <1>3, <2>2 DEF PoolLookup, StringDone, tables, callVars
  <2>3. CASE pool[content[t]] # Nothing
    <3>1. pool[content[t]] \in Values /\ StringDone(t, pool[content[t]])
      BY <1>3, <2>1, <2>3 DEF PoolLookup
    <3> QED BY <1>3, <2>1, <3>1, StringDoneTypes DEF PoolLookup, tables
  <2> QED BY <2>2, <2>3
<1>4. ASSUME NEW t \in Threads, AllocValue(t) PROVE RegTypeOK'
  BY <1>4 DEF AllocValue, tables, callVars, histories
<1>5. ASSUME NEW t \in Threads, Insert(t) PROVE RegTypeOK'
  <2>1. objects' \in [Values -> Contents \cup {"object", Nothing}]
    BY <1>5 DEF Insert, HasArguments, Unissued
  <2> QED BY <1>5, <2>1 DEF Insert, callVars, histories
<1>6. ASSUME NEW t \in Threads, InsertClass(t) PROVE RegTypeOK'
  BY <1>6 DEF InsertClass, HasArguments, Unissued
<1>7. ASSUME NEW t \in Threads, RegisterString(t) PROVE RegTypeOK'
  <2>1. content[t] \in Contents /\ value[t] \in Values
    BY <1>7 DEF RegisterString, HasArguments, Unissued
  <2>2. pool' \in [Contents -> Values \cup {Nothing}]
    BY <1>7, <2>1 DEF RegisterString
  <2> QED BY <1>7, <2>1, <2>2, StringDoneTypes DEF RegisterString
<1>8. ASSUME NEW t \in Threads, StoreBlock(t) PROVE RegTypeOK'
  BY <1>8 DEF StoreBlock, HasArguments, Unissued
<1>9. ASSUME NEW t \in Threads, SweepRemove(t) PROVE RegTypeOK'
  BY <1>9 DEF SweepRemove, callVars
<1>10. ASSUME NEW t \in Threads, SweepEnd(t) PROVE RegTypeOK'
  BY <1>10 DEF SweepEnd, tables, histories
<1>11. ASSUME NEW t \in Threads, NoRoom(t) PROVE RegTypeOK'
  BY <1>11 DEF NoRoom, tables, histories
<1>12. ASSUME NEW t \in Threads, AnswerCopy(t) PROVE RegTypeOK'
  <2>1. content[t] \in Contents /\ value[t] \in Values
    BY <1>12 DEF AnswerCopy, HasArguments, Unissued
  <2> QED BY <1>12, <2>1, StringDoneTypes DEF AnswerCopy, tables
<1> QED BY <1>1, <1>2, <1>3, <1>4, <1>5, <1>6, <1>7, <1>8, <1>9, <1>10, <1>11, <1>12
        DEF RegNext, RegProceed

\* What is known once t has its answer: nobody else's VALUE has changed or
\* been answered.
AfterAnswer(t) ==
  /\ HasArguments'
  /\ AnswersResolve'
  /\ \A a \in answered' : a[2] <= nextId'
  /\ \A u \in Threads :
       /\ regPc'[u] \in {"insert", "pool", "answer"} =>
            /\ u # t
            /\ regPc'[u] = regPc[u]
            /\ value'[u] = value[u]
            /\ content'[u] = content[u]
       /\ regPc'[u] \in {"insert", "pool", "answer", "class", "store"} => value'[u] \in Values
       /\ regPc'[u] = "insert" => \A a \in answered' : a[2] # value'[u]

\* A string answered with a VALUE that resolves keeps what is known of the
\* answers and of the VALUEs in hand, when no table of objects changes.
LEMMA StringDoneKeeps ==
  ASSUME RegInv, NEW t \in Threads, NEW v \in Values, content[t] \in Contents,
         StringDone(t, v), Resolves(v, content[t]), v <= nextId,
         \A u \in Threads \ {t} : regPc[u] = "insert" => value[u] # v,
         regPc[t] \in {"lookup", "pool", "answer"},
         UNCHANGED <<nextId, objects, swept>>
  PROVE  AfterAnswer(t)
<1> USE DEF RegInv, RegTypeOK, StringDone, RegGoto, RegReturn, callVars
<1>1. answered' = answered \cup {<<content[t], v>>}
  OBVIOUS
<1>2. AnswersResolve'
  BY <1>1 DEF AnswersResolve, Resolves
<1>3. \A a \in answered' : a[2] <= nextId'
  BY <1>1 DEF Unissued
<1>4. \/ regPc' = [regPc EXCEPT ![t] = "idle"] /\ value' = [value EXCEPT ![t] = Nothing]
      \/ regPc' = [regPc EXCEPT ![t] = "store"] /\ value' = [value EXCEPT ![t] = v]
  OBVIOUS
<1>5. \A u \in Threads \ {t} : /\ regPc'[u] = regPc[u] /\ value'[u] = value[u]
                               /\ content'[u] = content[u]
  OBVIOUS
<1>6. HasArguments'
  <2>1. CASE kind[t] \in {"string", "copy"}
    BY <2>1 DEF HasArguments
  <2>2. CASE kind[t] = "block"
    BY <2>2 DEF HasArguments
  <2> QED BY <2>1, <2>2
<1>7. \A u \in Threads : regPc'[u] \in {"insert", "pool", "answer"} => u # t
  BY <1>4
<1>8. \A u \in Threads : regPc'[u] = "insert" => \A a \in answered' : a[2] # value'[u]
  BY <1>1, <1>5, <1>7 DEF Private
<1>9. \A u \in Threads :
        regPc'[u] \in {"insert", "pool", "answer", "class", "store"} => value'[u] \in Values
  BY <1>4, <1>5 DEF Unissued
<1> QED BY <1>2, <1>3, <1>5, <1>6, <1>7, <1>8, <1>9 DEF AfterAnswer

\* The facts of one operation that the types do not cover.
RegRest == HasArguments /\ Unissued /\ Private /\ PoolResolves /\ AnswersResolve

\* The steps by which a VALUE comes into the world and into the tables.
LEMMA AllocateKeeps ==
  ASSUME RegInv, RegTypeOK', NEW t \in Threads, AllocValue(t) \/ Insert(t)
  PROVE  RegRest'
<1> USE NothingAssumption, MaxValuesAssumption DEF RegInv, RegTypeOK, Values, RegGoto, RegRest
<1>1. CASE AllocValue(t)
  <2> USE <1>1 DEF AllocValue, tables, callVars, histories
  <2>1. nextId + 1 \in Values
    OBVIOUS
  <2>2. HasArguments'
    BY DEF HasArguments
  <2>3. Unissued'
    BY <2>1 DEF Unissued
  <2>4. Private'
    BY <2>1 DEF Private, Unissued
  <2>5. PoolResolves' /\ AnswersResolve'
    BY DEF PoolResolves, Resolves, AnswersResolve
  <2> QED BY <2>2, <2>3, <2>4, <2>5
<1>2. CASE Insert(t)
  <2> USE <1>2 DEF Insert, callVars, histories
  <2>1. value[t] \in Values /\ value[t] <= nextId
    BY DEF Unissued
  <2>2. \A v \in Values : v # value[t] => objects'[v] = objects[v]
    OBVIOUS
  <2>3. HasArguments'
    BY DEF HasArguments
  <2>4. Unissued'
    BY <2>1, <2>2 DEF Unissued
  <2>5. Private'
    BY DEF Private
  <2>6. AnswersResolve'
    BY <2>2 DEF AnswersResolve, Private
  <2>7. \A c \in Contents : pool[c] # Nothing => Resolves(pool[c], c)'
    BY <2>2 DEF PoolResolves, Resolves, Private
  <2>8. \A u \in Threads : regPc'[u] \in {"pool", "answer"} => Resolves(value[u], content[u])'
    <3>1. CASE kind[t] # "object"
      BY <2>1, <2>2, <3>1 DEF PoolResolves, Resolves, Private
    <3>2. CASE kind[t] = "object"
      BY <2>1, <2>2, <3>2 DEF PoolResolves, Resolves, Private
    <3> QED BY <3>1, <3>2
  <2> QED BY <2>3, <2>4, <2>5, <2>6, <2>7, <2>8 DEF PoolResolves
<1> QED BY <1>1, <1>2

\* The steps that answer with a string: from the pool, or with a new one.
LEMMA AnswerKeeps ==
  ASSUME RegInv, RegTypeOK', NEW t \in Threads,
         PoolLookup(t) \/ RegisterString(t) \/ AnswerCopy(t)
  PROVE  RegRest'
<1> USE NothingAssumption, MaxValuesAssumption DEF RegInv, RegTypeOK, Values, RegRest
<1>1. CASE PoolLookup(t) /\ pool[content[t]] = Nothing
  <2> USE <1>1 DEF PoolLookup, RegGoto, callVars, tables
  <2>1. regPc' = [regPc EXCEPT ![t] = "alloc"] /\ UNCHANGED <<answered, callVars, value>>
    BY DEF StringDone
  <2>2. HasArguments'
    BY <2>1 DEF HasArguments
  <2>3. Unissued'
    BY <2>1 DEF Unissued
  <2>4. Private'
    BY <2>1 DEF Private
  <2>5. PoolResolves' /\ AnswersResolve'
    BY <2>1 DEF PoolResolves, Resolves, AnswersResolve
  <2> QED BY <2>2, <2>3, <2>4, <2>5
<1>2. CASE PoolLookup(t) /\ pool[content[t]] # Nothing
  <2> DEFINE v == pool[content[t]]
  <2>1. content[t] \in Contents /\ StringDone(t, v)
    BY <1>2 DEF PoolLookup, HasArguments
  <2>2. v \in Values /\ v <= nextId /\ Resolves(v, content[t])
    BY <1>2, <2>1 DEF PoolResolves, Unissued
  <2>3. \A u \in Threads \ {t} : regPc[u] = "insert" => value[u] # v
    BY <2>1 DEF Private
  <2>4. UNCHANGED <<nextId, objects, pool, swept>> /\ regPc[t] = "lookup"
    BY <1>2 DEF PoolLookup, tables
  <2> HIDE DEF v
  <2>5. AfterAnswer(t)
    BY <2>1, <2>2, <2>3, <2>4, StringDoneKeeps
  <2>6. Unissued'
    BY <2>4, <2>5 DEF Unissued, AfterAnswer
  <2>7. Private'
    BY <2>4, <2>5 DEF Private, AfterAnswer
  <2>8. PoolResolves'
    BY <2>4, <2>5 DEF PoolResolves, Resolves, AfterAnswer
  <2> QED BY <2>5, <2>6, <2>7, <2>8 DEF AfterAnswer
<1>3. CASE RegisterString(t)
  <2>1. /\ content[t] \in Contents /\ StringDone(t, value[t])
        /\ value[t] \in Values /\ value[t] <= nextId /\ Resolves(value[t], content[t])
    BY <1>3 DEF RegisterString, HasArguments, Unissued, PoolResolves
  <2>2. \A u \in Threads \ {t} : regPc[u] = "insert" => value[u] # value[t]
    BY <1>3 DEF RegisterString, Private
  <2>3. /\ UNCHANGED <<nextId, objects, swept>> /\ regPc[t] = "pool"
        /\ pool' = [pool EXCEPT ![content[t]] = value[t]]
    BY <1>3 DEF RegisterString
  <2>4. AfterAnswer(t)
    BY <2>1, <2>2, <2>3, StringDoneKeeps
  <2>5. \A c \in Contents : pool'[c] = IF c = content[t] THEN value[t] ELSE pool[c]
    BY <2>1, <2>3
  <2>6. Unissued'
    BY <2>1, <2>3, <2>4, <2>5 DEF Unissued, AfterAnswer
  <2>7. Private'
    BY <2>2, <2>3, <2>4, <2>5 DEF Private, AfterAnswer
  <2>8. PoolResolves'
    BY <2>1, <2>3, <2>4, <2>5 DEF PoolResolves, Resolves, AfterAnswer
  <2> QED BY <2>4, <2>6, <2>7, <2>8 DEF AfterAnswer
<1>4. CASE AnswerCopy(t)
  <2>1. /\ content[t] \in Contents /\ StringDone(t, value[t])
        /\ value[t] \in Values /\ value[t] <= nextId /\ Resolves(value[t], content[t])
    BY <1>4 DEF AnswerCopy, HasArguments, Unissued, PoolResolves
  <2>2. \A u \in Threads \ {t} : regPc[u] = "insert" => value[u] # value[t]
    BY <1>4 DEF AnswerCopy, Private
  <2>3. UNCHANGED <<nextId, objects, pool, swept>> /\ regPc[t] = "answer"
    BY <1>4 DEF AnswerCopy, tables
  <2>4. AfterAnswer(t)
    BY <2>1, <2>2, <2>3, StringDoneKeeps
  <2>5. Unissued'
    BY <2>3, <2>4 DEF Unissued, AfterAnswer
  <2>6. Private'
    BY <2>2, <2>3, <2>4 DEF Private, AfterAnswer
  <2>7. PoolResolves'
    BY <2>3, <2>4 DEF PoolResolves, Resolves, AfterAnswer
  <2> QED BY <2>4, <2>5, <2>6, <2>7 DEF AfterAnswer
<1> QED BY <1>1, <1>2, <1>3, <1>4

\* The steps that touch neither the objects nor the pool, and the sweep.
LEMMA OthersKeep ==
  ASSUME RegInv, RegTypeOK', NEW t \in Threads,
         \/ RegCall(t) \/ NoRoom(t) \/ InsertClass(t) \/ StoreBlock(t)
         \/ SweepRemove(t) \/ SweepEnd(t)
  PROVE  RegRest'
<1> USE NothingAssumption DEF RegInv, RegTypeOK, Values, RegGoto, RegReturn
<1>1. /\ UNCHANGED <<nextId, pool, answered>>
      /\ swept \subseteq swept'
      /\ \A v \in Values : objects'[v] # objects[v] => objects'[v] = Nothing /\ v \in swept'
      /\ \A u \in Threads : regPc'[u] \in {"insert", "pool", "answer", "class", "store"} =>
           regPc'[u] = regPc[u] /\ value'[u] = value[u] /\ content'[u] = content[u]
  <2>1. CASE RegCall(t)
    BY <2>1 DEF RegCall, StrToValue, JdrubyToValue, BlockCreate, NewObject, SweepStart, tables, callVars, histories
  <2>2. CASE InsertClass(t)
    BY <2>2 DEF InsertClass
  <2>3. CASE StoreBlock(t)
    BY <2>3 DEF StoreBlock
  <2>4. CASE SweepRemove(t)
    BY <2>4 DEF SweepRemove, callVars
  <2>5. CASE SweepEnd(t)
    BY <2>5 DEF SweepEnd, tables, histories
  <2>6. CASE NoRoom(t)
    BY <2>6 DEF NoRoom, tables, histories
  <2> QED BY <2>1, <2>2, <2>3, <2>4, <2>5, <2>6
<1>2. HasArguments'
  <2>1. CASE StrToValue(t) \/ JdrubyToValue(t) \/ BlockCreate(t) \/ NewObject(t)
    BY <2>1 DEF HasArguments, StrToValue, JdrubyToValue, BlockCreate, NewObject
  <2>2. CASE SweepStart(t) \/ SweepRemove(t) \/ SweepEnd(t)
    BY <2>2 DEF HasArguments, SweepStart, SweepRemove, SweepEnd, callVars
  <2>3. CASE InsertClass(t) \/ StoreBlock(t) \/ NoRoom(t)
    BY <2>3 DEF HasArguments, InsertClass, StoreBlock, NoRoom
  <2> QED BY <2>1, <2>2, <2>3 DEF RegCall
<1>3. Unissued'
  BY <1>1 DEF Unissued
<1>4. Private'
  BY <1>1 DEF Private
<1>5. PoolResolves'
  BY <1>1 DEF PoolResolves, Resolves, Unissued
<1>6. AnswersResolve'
  BY <1>1 DEF AnswersResolve
<1> QED BY <1>2, <1>3, <1>4, <1>5, <1>6 DEF RegRest

\* Every step of every thread preserves the invariant.
LEMMA RegStep == RegInv /\ [RegNext]_regVars => RegInv'
<1> SUFFICES ASSUME RegInv, [RegNext]_regVars PROVE RegInv'
  OBVIOUS
<1>1. RegTypeOK'
  BY RegTypes
<1>2. RegRest'
  <2>1. CASE UNCHANGED regVars
    BY <2>1 DEF regVars, tables, callVars, histories, RegInv, RegRest, HasArguments, Unissued,
                Private, PoolResolves, Resolves, AnswersResolve
  <2>2. ASSUME NEW t \in Threads, RegCall(t) \/ RegProceed(t) PROVE RegRest'
    BY <1>1, <2>2, AllocateKeeps, AnswerKeeps, OthersKeep DEF RegProceed
  <2> QED BY <2>1, <2>2 DEF RegNext
<1> QED BY <1>1, <1>2 DEF RegInv, RegRest

-----------------------------------------------------------------------------
\* The invariant holds in every reachable state.
LEMMA RegInvariant == RegSpec => []RegInv
BY RegInitInv, RegStep, PTL DEF RegSpec

\* The tables keep their types for every set of threads and strings.
THEOREM RegTypeCorrect == RegSpec => []RegTypeOK
<1>1. RegInv => RegTypeOK
  BY DEF RegInv
<1> QED BY <1>1, RegInvariant, PTL

\* A VALUE returned for a string stands for it until it is swept, however many
\* threads allocate, look up and sweep at once.
THEOREM ValuesResolve == RegSpec => []AnswersResolve
<1>1. RegInv => AnswersResolve
  BY DEF RegInv
<1> QED BY <1>1, RegInvariant, PTL

-----------------------------------------------------------------------------
(* A VALUE means one thing *)

Meant == INSTANCE ValueTable WITH Meanings <- Contents \cup {"object"}

\* A VALUE that is not registered yet, or not in the pool yet, is in one
\* thread's hands; before it is registered it stands for nothing.
Owned ==
  \A t \in Threads : regPc[t] \in {"insert", "pool", "answer"} =>
    /\ \A a \in answered : a[2] # value[t]
    /\ \A c \in Contents : pool[c] # value[t]
    /\ \A u \in Threads \ {t} : regPc[u] \in {"insert", "pool", "answer"} => value[u] # value[t]
    /\ regPc[t] = "insert" => objects[value[t]] = Nothing /\ value[t] \notin swept

\* Only what has been given out is swept, and a snapshot names VALUEs that are
\* there or that another sweep has taken.
SweepsAgree ==
  /\ \A v \in Values : v > nextId => v \notin swept
  /\ \A t \in Threads : \A v \in toSweep[t] : objects[v] # Nothing \/ v \in swept

\* No VALUE was answered, or is pooled, for two strings.
OneMeaning ==
  /\ \A a, b \in answered : a[2] = b[2] => a[1] = b[1]
  /\ \A c \in Contents : \A a \in answered : pool[c] = a[2] => a[1] = c
  /\ \A c, d \in Contents : pool[c] = pool[d] /\ pool[c] # Nothing => c = d

MeaningInv == Owned /\ SweepsAgree /\ OneMeaning

\* The steps of a call that change neither what VALUEs mean nor who has them.
LEMMA MeaningKept ==
  ASSUME RegInv, MeaningInv, NEW t \in Threads,
         RegCall(t) \/ NoRoom(t) \/ InsertClass(t) \/ StoreBlock(t) \/ SweepEnd(t)
  PROVE  MeaningInv' /\ UNCHANGED Meant!valueVars
<1> USE DEF RegInv, RegTypeOK, RegGoto, RegReturn
<1>1. UNCHANGED <<nextId, objects, pool, answered, swept>>
  BY DEF RegCall, StrToValue, JdrubyToValue, BlockCreate, NewObject, SweepStart, NoRoom, InsertClass, StoreBlock,
         SweepEnd, tables,
         callVars, histories
<1>2. \A u \in Threads : regPc'[u] \in {"insert", "pool", "answer"} => regPc'[u] = regPc[u] /\ value'[u] = value[u]
  BY DEF RegCall, StrToValue, JdrubyToValue, BlockCreate, NewObject, SweepStart, NoRoom, InsertClass, StoreBlock,
         SweepEnd, tables,
         callVars, histories
<1>3. \A u \in Threads : toSweep'[u] = toSweep[u] \/ toSweep'[u] = {v \in Values : objects[v] # Nothing}
  BY DEF RegCall, StrToValue, JdrubyToValue, BlockCreate, NewObject, SweepStart, NoRoom, InsertClass, StoreBlock,
         SweepEnd, tables,
         callVars, histories
<1>4. Owned'
  BY <1>1, <1>2 DEF MeaningInv, Owned
<1>5. SweepsAgree'
  BY <1>1, <1>3 DEF MeaningInv, SweepsAgree
<1>6. OneMeaning'
  BY <1>1 DEF MeaningInv, OneMeaning
<1> QED BY <1>1, <1>4, <1>5, <1>6 DEF MeaningInv, Meant!valueVars

\* A VALUE fresh from alloc_value is nobody else's and means nothing.
LEMMA MeaningAllocated ==
  ASSUME RegInv, MeaningInv, NEW t \in Threads, AllocValue(t)
  PROVE  MeaningInv' /\ UNCHANGED Meant!valueVars
<1> USE NothingAssumption, MaxValuesAssumption DEF RegInv, RegTypeOK, RegGoto, AllocValue, tables, callVars, histories, Values
<1>1. /\ UNCHANGED <<objects, pool, answered, swept, toSweep>>
      /\ nextId' = nextId + 1 /\ nextId + 1 \in Values
      /\ regPc'[t] = "insert" /\ value'[t] = nextId + 1
      /\ \A u \in Threads \ {t} : regPc'[u] = regPc[u] /\ value'[u] = value[u]
  OBVIOUS
<1>2. /\ objects[nextId + 1] = Nothing /\ nextId + 1 \notin swept
      /\ \A a \in answered : a[2] # nextId + 1
      /\ \A c \in Contents : pool[c] # nextId + 1
      /\ \A u \in Threads : regPc[u] \in {"insert", "pool", "answer"} => value[u] # nextId + 1
  BY <1>1 DEF Unissued, MeaningInv, SweepsAgree
<1>3. Owned'
  BY <1>1, <1>2 DEF MeaningInv, Owned
<1>4. SweepsAgree'
  <2>1. \A v \in Values : v > nextId' => v > nextId
    BY <1>1
  <2>2. \A v \in Values : v > nextId' => v \notin swept'
    BY <1>1, <2>1 DEF MeaningInv, SweepsAgree
  <2>3. \A u \in Threads : \A v \in toSweep'[u] : objects'[v] # Nothing \/ v \in swept'
    BY <1>1 DEF MeaningInv, SweepsAgree
  <2> QED BY <2>2, <2>3 DEF SweepsAgree
<1>5. OneMeaning'
  BY <1>1 DEF MeaningInv, OneMeaning
<1> QED BY <1>1, <1>3, <1>4, <1>5 DEF MeaningInv, Meant!valueVars

\* Registering it gives it its meaning.
LEMMA MeaningGiven ==
  ASSUME RegInv, MeaningInv, NEW t \in Threads, Insert(t)
  PROVE  MeaningInv' /\ Meant!ValueNext
<1> USE DEF RegInv, RegTypeOK, RegGoto
<1>1. PICK v \in Values : v = value[t]
  BY DEF Insert, Unissued
<1>2. PICK m \in Contents \cup {"object"} : objects' = [objects EXCEPT ![v] = m]
  BY <1>1 DEF Insert, HasArguments
<1>3. /\ UNCHANGED <<nextId, pool, answered, swept, toSweep, value>> /\ regPc[t] = "insert"
      /\ regPc'[t] # "insert" /\ \A u \in Threads \ {t} : regPc'[u] = regPc[u]
  BY DEF Insert, histories
<1>4. Meant!Give(v, m)
  BY <1>1, <1>2, <1>3 DEF MeaningInv, Owned, Meant!Give, Meant!Fresh
<1>5. m # Nothing /\ \A w \in Values : objects'[w] = IF w = v THEN m ELSE objects[w]
  BY <1>2, NothingAssumption DEF Insert
<1>6. Owned'
  BY <1>1, <1>3, <1>5 DEF MeaningInv, Owned, Unissued
<1>7. SweepsAgree'
  BY <1>3, <1>5 DEF MeaningInv, SweepsAgree
<1>8. OneMeaning'
  BY <1>3 DEF MeaningInv, OneMeaning
<1> QED BY <1>4, <1>6, <1>7, <1>8 DEF MeaningInv, Meant!ValueNext

\* An answer is one of the VALUE's own string, from the pool or newly made.
LEMMA MeaningAnswered ==
  ASSUME RegInv, MeaningInv, NEW t \in Threads,
         PoolLookup(t) \/ RegisterString(t) \/ AnswerCopy(t)
  PROVE  MeaningInv' /\ [Meant!ValueNext]_(Meant!valueVars)
<1> USE DEF RegInv, RegTypeOK, RegGoto, RegReturn, callVars
<1>1. CASE PoolLookup(t) /\ pool[content[t]] = Nothing
  <2>1. /\ UNCHANGED <<nextId, objects, pool, answered, swept, toSweep, value>>
        /\ \A u \in Threads : regPc'[u] \in {"insert", "pool", "answer"} => regPc'[u] = regPc[u]
    BY <1>1 DEF PoolLookup, StringDone, tables
  <2>2. MeaningInv'
    BY <2>1 DEF MeaningInv, Owned, SweepsAgree, OneMeaning
  <2> QED BY <2>1, <2>2 DEF Meant!valueVars
<1>2. CASE PoolLookup(t) /\ pool[content[t]] # Nothing
  <2>1. PICK c \in Contents : c = content[t]
    BY <1>2 DEF PoolLookup, HasArguments
  <2>2. PICK v \in Values : v = pool[c]
    BY <1>2, <2>1
  <2>3. /\ UNCHANGED <<nextId, objects, pool, swept, toSweep>> /\ answered' = answered \cup {<<c, v>>}
        /\ \A u \in Threads : regPc'[u] \in {"insert", "pool", "answer"} => u # t /\ regPc'[u] = regPc[u] /\ value'[u] = value[u]
    BY <1>2, <2>1, <2>2 DEF PoolLookup, StringDone, tables
  <2>4. Meant!Answer(v, c)
    <3>1. objects[v] = c \/ v \in swept
      BY <1>2, <2>1, <2>2 DEF PoolResolves, Resolves
    <3>2. \A a \in answered : a[2] = v => a[1] = c
      BY <2>2 DEF MeaningInv, OneMeaning
    <3> QED BY <2>3, <3>1, <3>2 DEF Meant!Answer
  <2>5. Owned'
    BY <2>2, <2>3 DEF MeaningInv, Owned
  <2>6. SweepsAgree'
    BY <2>3 DEF MeaningInv, SweepsAgree
  <2>7. OneMeaning'
    BY <1>2, <2>1, <2>2, <2>3 DEF MeaningInv, OneMeaning
  <2> QED BY <2>4, <2>5, <2>6, <2>7 DEF MeaningInv, Meant!ValueNext
<1>3. CASE RegisterString(t)
  <2>1. PICK c \in Contents : c = content[t]
    BY <1>3 DEF RegisterString, HasArguments
  <2>2. PICK v \in Values : v = value[t]
    BY <1>3 DEF RegisterString, Unissued
  <2>3. /\ UNCHANGED <<nextId, objects, swept, toSweep>> /\ answered' = answered \cup {<<c, v>>}
        /\ \A d \in Contents : pool'[d] = IF d = c THEN v ELSE pool[d]
        /\ regPc[t] = "pool"
        /\ \A u \in Threads : regPc'[u] \in {"insert", "pool", "answer"} => u # t /\ regPc'[u] = regPc[u] /\ value'[u] = value[u]
    BY <1>3, <2>1, <2>2 DEF RegisterString, StringDone
  <2>4. /\ \A a \in answered : a[2] # v
        /\ \A d \in Contents : pool[d] # v
        /\ \A u \in Threads \ {t} : regPc[u] \in {"insert", "pool", "answer"} => value[u] # v
    BY <2>2, <2>3 DEF MeaningInv, Owned
  <2>5. objects[v] = c \/ v \in swept
    BY <2>1, <2>2, <2>3 DEF PoolResolves, Resolves
  <2>6. Meant!Answer(v, c)
    BY <2>3, <2>4, <2>5 DEF Meant!Answer
  <2>7. Owned'
    BY <2>3, <2>4 DEF MeaningInv, Owned
  <2>8. SweepsAgree'
    BY <2>3 DEF MeaningInv, SweepsAgree
  <2>9. OneMeaning'
    BY <2>3, <2>4 DEF MeaningInv, OneMeaning
  <2> QED BY <2>6, <2>7, <2>8, <2>9 DEF MeaningInv, Meant!ValueNext
<1>4. CASE AnswerCopy(t)
  <2>1. PICK c \in Contents : c = content[t]
    BY <1>4 DEF AnswerCopy, HasArguments
  <2>2. PICK v \in Values : v = value[t]
    BY <1>4 DEF AnswerCopy, Unissued
  <2>3. /\ UNCHANGED <<nextId, objects, pool, swept, toSweep>> /\ answered' = answered \cup {<<c, v>>}
        /\ regPc[t] = "answer"
        /\ \A u \in Threads : regPc'[u] \in {"insert", "pool", "answer"} =>
             u # t /\ regPc'[u] = regPc[u] /\ value'[u] = value[u]
    BY <1>4, <2>1, <2>2 DEF AnswerCopy, StringDone, tables
  <2>4. /\ \A a \in answered : a[2] # v
        /\ \A d \in Contents : pool[d] # v
        /\ \A u \in Threads \ {t} : regPc[u] \in {"insert", "pool", "answer"} => value[u] # v
    BY <2>2, <2>3 DEF MeaningInv, Owned
  <2>5. objects[v] = c \/ v \in swept
    BY <2>1, <2>2, <2>3 DEF PoolResolves, Resolves
  <2>6. Meant!Answer(v, c)
    BY <2>3, <2>4, <2>5 DEF Meant!Answer
  <2>7. Owned'
    BY <2>3, <2>4 DEF MeaningInv, Owned
  <2>8. SweepsAgree'
    BY <2>3 DEF MeaningInv, SweepsAgree
  <2>9. OneMeaning'
    BY <2>3, <2>4 DEF MeaningInv, OneMeaning
  <2> QED BY <2>6, <2>7, <2>8, <2>9 DEF MeaningInv, Meant!ValueNext
<1> QED BY <1>1, <1>2, <1>3, <1>4

\* A sweep takes a meaning away, or finds that another sweep has.
LEMMA MeaningTaken ==
  ASSUME RegInv, MeaningInv, NEW t \in Threads, SweepRemove(t)
  PROVE  MeaningInv' /\ [Meant!ValueNext]_(Meant!valueVars)
<1> USE DEF RegInv, RegTypeOK
<1>1. PICK v \in toSweep[t] : /\ objects' = [objects EXCEPT ![v] = Nothing]
                              /\ toSweep' = [toSweep EXCEPT ![t] = @ \ {v}]
                              /\ swept' = swept \cup {v}
  BY DEF SweepRemove
<1>2. v \in Values /\ UNCHANGED <<nextId, pool, regPc, value, answered>>
  BY <1>1 DEF SweepRemove
<1>3. objects[v] # Nothing \/ v \in swept
  BY <1>1 DEF MeaningInv, SweepsAgree
<1>4. \A w \in Values : objects'[w] = IF w = v THEN Nothing ELSE objects[w]
  BY <1>1
<1>5. [Meant!ValueNext]_(Meant!valueVars)
  <2>1. CASE objects[v] # Nothing
    BY <1>1, <1>2, <2>1 DEF Meant!TakeAway, Meant!ValueNext
  <2>2. CASE objects[v] = Nothing
    BY <1>1, <1>2, <1>3, <2>2 DEF Meant!valueVars
  <2> QED BY <2>1, <2>2
<1>6. \A u \in Threads : regPc[u] = "insert" => value[u] # v
  BY <1>3 DEF MeaningInv, Owned
<1>7. Owned'
  BY <1>1, <1>2, <1>4, <1>6 DEF MeaningInv, Owned
<1>8. SweepsAgree'
  <2>1. v <= nextId
    BY <1>2, <1>3, MaxValuesAssumption DEF Unissued, MeaningInv, SweepsAgree, Values
  <2>2. \A u \in Threads : toSweep'[u] \subseteq toSweep[u] /\ toSweep[u] \subseteq Values
    BY <1>1
  <2> QED BY <1>1, <1>2, <1>4, <2>1, <2>2, MaxValuesAssumption DEF MeaningInv, SweepsAgree, Values
<1>9. OneMeaning'
  BY <1>2 DEF MeaningInv, OneMeaning
<1> QED BY <1>5, <1>7, <1>8, <1>9 DEF MeaningInv

\* Every step keeps one meaning for each VALUE, and is a step of the table.
LEMMA MeaningStep ==
  ASSUME RegInv, MeaningInv, [RegNext]_regVars
  PROVE  MeaningInv' /\ [Meant!ValueNext]_(Meant!valueVars)
<1>1. CASE UNCHANGED regVars
  BY <1>1 DEF regVars, tables, callVars, histories, MeaningInv, Owned, SweepsAgree, OneMeaning, Meant!valueVars
<1>2. ASSUME NEW t \in Threads, RegCall(t) \/ RegProceed(t)
      PROVE  MeaningInv' /\ [Meant!ValueNext]_(Meant!valueVars)
  BY <1>2, MeaningKept, MeaningAllocated, MeaningGiven, MeaningAnswered, MeaningTaken DEF RegProceed
<1> QED BY <1>1, <1>2 DEF RegNext

\* At the start no VALUE means anything.
LEMMA MeaningInit == RegInit => Meant!ValueInit /\ MeaningInv
BY DEF RegInit, Meant!ValueInit, MeaningInv, Owned, SweepsAgree, OneMeaning

\* The registry, its locks taken one at a time, implements the table: no VALUE
\* is ever given a second meaning, sweeps and races of threads that miss the
\* same string included, and no answer is for another string.
THEOREM RegistryImplementsValues == RegSpec => Meant!ValueSpec
<1>1. RegInv /\ MeaningInv /\ [RegNext]_regVars =>
        MeaningInv' /\ [Meant!ValueNext]_(Meant!valueVars)
  BY MeaningStep
<1> QED BY <1>1, MeaningInit, RegInvariant, PTL DEF RegSpec, Meant!ValueSpec

-----------------------------------------------------------------------------
(* How often a string is allocated *)

\* What str_to_value has answered for c.
AnswersFor(c) == {a \in answered : a[1] = c /\ a[2] \notin copied}

\* The threads that missed c in the pool and have not registered it yet.
Missed(c) ==
  {t \in Threads :
     /\ content[t] = c
     /\ regPc[t] = "pool" \/ (regPc[t] \in {"alloc", "insert"} /\ kind[t] \in {"string", "block"})}

\* A string in the pool has been answered; before it is, only threads that
\* missed it stand for the VALUEs it will have there.
Counted ==
  /\ IsFiniteSet(answered)
  /\ \A v \in copied : \E a \in answered : a[2] = v
  /\ \A c \in Contents :
       /\ pool[c] = Nothing => AnswersFor(c) = {}
       /\ pool[c] # Nothing => <<c, pool[c]>> \in answered
       /\ Cardinality(AnswersFor(c)) + Cardinality(Missed(c)) <= Cardinality(Threads)

\* The sets that are counted are finite.
LEMMA CountedFinite ==
  ASSUME Counted, NEW c
  PROVE  /\ IsFiniteSet(AnswersFor(c)) /\ IsFiniteSet(Missed(c))
         /\ Cardinality(AnswersFor(c)) \in Nat /\ Cardinality(Missed(c)) \in Nat
         /\ Cardinality(Missed(c)) <= Cardinality(Threads) /\ Cardinality(Threads) \in Nat
<1>1. AnswersFor(c) \in SUBSET answered /\ Missed(c) \in SUBSET Threads
  BY DEF AnswersFor, Missed
<1>2. IsFiniteSet(AnswersFor(c)) /\ IsFiniteSet(Missed(c))
  BY <1>1, FS_Subset, RegThreadsAssumption DEF Counted
<1> QED BY <1>1, <1>2, FS_Subset, FS_CardinalityType, RegThreadsAssumption

\* A step that answers nothing new and lets no thread miss a string.
LEMMA CountSame ==
  ASSUME Counted, UNCHANGED <<pool, answered, copied>>,
         \A c \in Contents : Missed(c)' = Missed(c)
  PROVE  Counted'
<1>1. \A c \in Contents : AnswersFor(c)' = AnswersFor(c)
  BY DEF AnswersFor
<1> QED BY <1>1 DEF Counted

\* A miss counts one more thread, and there was no answer yet; a hit answers
\* what was answered before.
LEMMA CountLookup ==
  ASSUME RegInv, Counted, NEW t \in Threads, PoolLookup(t)
  PROVE  Counted'
<1>0. PICK c \in Contents : c = content[t]
  BY DEF PoolLookup, RegInv, HasArguments
<1>1. c \in Contents /\ regPc[t] = "lookup" /\ pool' = pool /\ copied' = copied
  BY <1>0 DEF PoolLookup, RegInv, HasArguments, tables
<1>2. \A u \in Threads \ {t} : regPc'[u] = regPc[u] /\ kind'[u] = kind[u] /\ content'[u] = content[u]
  BY DEF PoolLookup, StringDone, RegReturn, RegGoto, RegInv, RegTypeOK, callVars
<1>3. CASE pool[c] = Nothing
  <2>1. answered' = answered
    BY <1>0, <1>3 DEF PoolLookup, StringDone
  <2>2. \A d \in Contents : AnswersFor(d)' = AnswersFor(d)
    BY <1>1, <2>1 DEF AnswersFor
  <2>3. \A d \in Contents \ {c} : Missed(d)' = Missed(d)
    <3>1. content'[t] = c
      BY <1>0, <1>3 DEF PoolLookup, callVars
    <3>2. \A d \in Contents \ {c} : t \notin Missed(d) /\ t \notin Missed(d)'
      BY <1>0, <3>1 DEF Missed
    <3>3. \A d : \A u \in Threads \ {t} : u \in Missed(d)' <=> u \in Missed(d)
      BY <1>2 DEF Missed
    <3>4. \A d : Missed(d) \subseteq Threads /\ Missed(d)' \subseteq Threads
      BY DEF Missed
    <3> QED BY <3>2, <3>3, <3>4
  <2>4. Cardinality(AnswersFor(c)) = 0
    BY <1>1, <1>3, FS_EmptySet DEF Counted
  <2>5. Cardinality(Missed(c)') <= Cardinality(Threads) /\ Cardinality(Missed(c)') \in Nat
    <3>1. Missed(c)' \in SUBSET Threads
      BY DEF Missed
    <3>2. IsFiniteSet(Missed(c)')
      BY <3>1, FS_Subset, RegThreadsAssumption
    <3> QED BY <3>1, <3>2, FS_Subset, FS_CardinalityType, RegThreadsAssumption
  <2>6. Cardinality(AnswersFor(c)') = 0
    BY <1>1, <2>2, <2>4
  <2>7. Cardinality(AnswersFor(c)') + Cardinality(Missed(c)') <= Cardinality(Threads)
    BY <2>5, <2>6
  <2>8. ASSUME NEW d \in Contents
        PROVE  /\ pool'[d] = Nothing => AnswersFor(d)' = {}
               /\ pool'[d] # Nothing => <<d, pool'[d]>> \in answered'
               /\ Cardinality(AnswersFor(d)') + Cardinality(Missed(d)') <= Cardinality(Threads)
    <3>1. CASE d = c
      BY <1>1, <1>3, <2>1, <2>2, <2>7, <3>1 DEF Counted
    <3>2. CASE d # c
      BY <1>1, <2>1, <2>2, <2>3, <3>2 DEF Counted
    <3> QED BY <3>1, <3>2
  <2> QED BY <1>1, <2>1, <2>8 DEF Counted
<1>4. CASE pool[c] # Nothing
  <2>1. answered' = answered \cup {<<c, pool[c]>>}
    BY <1>0, <1>4 DEF PoolLookup, StringDone
  <2>2. answered' = answered
    BY <1>1, <1>4, <2>1 DEF Counted
  <2>3. regPc'[t] \in {"idle", "store"}
    BY <1>0, <1>4 DEF PoolLookup, StringDone, RegReturn, RegGoto, RegInv, RegTypeOK
  <2>4. \A d \in Contents : Missed(d)' = Missed(d)
    BY <1>1, <1>2, <2>3 DEF Missed
  <2> QED BY <1>1, <2>2, <2>4, CountSame
<1> QED BY <1>3, <1>4

\* A thread that registers its string is no longer among those that missed it.
LEMMA CountRegister ==
  ASSUME RegInv, MeaningInv, Counted, NEW t \in Threads, RegisterString(t)
  PROVE  Counted'
<1>0. PICK c \in Contents, v \in Values : c = content[t] /\ v = value[t]
  BY DEF RegisterString, RegInv, HasArguments, Unissued
<1>1. c \in Contents /\ regPc[t] = "pool" /\ v \in Values /\ v # Nothing
  BY <1>0, NothingAssumption, MaxValuesAssumption DEF RegisterString, RegInv, HasArguments, Unissued, Values
<1>2. \A u \in Threads \ {t} : regPc'[u] = regPc[u] /\ kind'[u] = kind[u] /\ content'[u] = content[u]
  BY DEF RegisterString, StringDone, RegReturn, RegGoto, RegInv, RegTypeOK, callVars
<1>3. regPc'[t] \in {"idle", "store"} /\ answered' = answered \cup {<<c, v>>}
  BY <1>0 DEF RegisterString, StringDone, RegReturn, RegGoto, RegInv, RegTypeOK
<1>4. pool'[c] = v /\ \A d \in Contents \ {c} : pool'[d] = pool[d]
  BY <1>0, <1>1 DEF RegisterString, RegInv, RegTypeOK
<1>5. /\ t \in Missed(c) /\ Missed(c)' = Missed(c) \ {t}
      /\ \A d \in Contents \ {c} : Missed(d)' = Missed(d)
  <2>1. \A d : t \notin Missed(d)'
    BY <1>3 DEF Missed
  <2>2. \A d : \A u \in Threads \ {t} : u \in Missed(d)' <=> u \in Missed(d)
    BY <1>2 DEF Missed
  <2>3. t \in Missed(c) /\ \A d \in Contents \ {c} : t \notin Missed(d)
    BY <1>0, <1>1 DEF Missed
  <2>4. \A d : Missed(d) \subseteq Threads /\ Missed(d)' \subseteq Threads
    BY DEF Missed
  <2>5. Missed(c)' = Missed(c) \ {t}
    BY <2>1, <2>2, <2>4
  <2>6. ASSUME NEW d \in Contents \ {c} PROVE Missed(d)' = Missed(d)
    <3>1. t \notin Missed(d) /\ t \notin Missed(d)'
      BY <2>1, <2>3
    <3>2. \A u \in Threads \ {t} : u \in Missed(d)' <=> u \in Missed(d)
      BY <2>2
    <3>3. Missed(d) \subseteq Threads /\ Missed(d)' \subseteq Threads
      BY <2>4
    <3> QED BY <3>1, <3>2, <3>3
  <2> QED BY <2>3, <2>5, <2>6
<1>10. v \notin copied /\ copied' = copied
  BY <1>0, <1>1 DEF RegisterString, MeaningInv, Owned, Counted
<1>6. /\ AnswersFor(c)' = AnswersFor(c) \cup {<<c, v>>}
      /\ \A d \in Contents \ {c} : AnswersFor(d)' = AnswersFor(d)
  <2> DEFINE new == <<c, v>>
  <2>1. new[1] = c /\ new[2] \notin copied
    BY <1>10
  <2>2. answered' = answered \cup {new}
    BY <1>3
  <2> HIDE DEF new
  <2>3. \A d : AnswersFor(d)' = {a \in answered \cup {new} : a[1] = d /\ a[2] \notin copied}
    BY <1>10, <2>2 DEF AnswersFor
  <2>4. AnswersFor(c)' = AnswersFor(c) \cup {new}
    BY <2>1, <2>3 DEF AnswersFor
  <2>5. \A d \in Contents \ {c} : AnswersFor(d)' = AnswersFor(d)
    BY <2>1, <2>3 DEF AnswersFor
  <2> QED BY <2>4, <2>5 DEF new
<1>7. IsFiniteSet(answered')
  BY <1>3, FS_AddElement DEF Counted
<1>8. Cardinality(AnswersFor(c)') + Cardinality(Missed(c)') <= Cardinality(Threads)
  <2>1. Cardinality(Missed(c)') = Cardinality(Missed(c)) - 1
    <3>1. IsFiniteSet(Missed(c))
      BY CountedFinite
    <3> QED BY <1>5, <3>1, FS_RemoveElement
  <2>2. /\ Cardinality(AnswersFor(c)') <= Cardinality(AnswersFor(c)) + 1
        /\ Cardinality(AnswersFor(c)') \in Nat
    <3> DEFINE new == <<c, v>>
    <3>1. IsFiniteSet(AnswersFor(c)) /\ Cardinality(AnswersFor(c)) \in Nat
      BY CountedFinite
    <3>2. AnswersFor(c)' = AnswersFor(c) \cup {new}
      BY <1>6
    <3> HIDE DEF new
    <3>3. \/ Cardinality(AnswersFor(c)') = Cardinality(AnswersFor(c))
          \/ Cardinality(AnswersFor(c)') = Cardinality(AnswersFor(c)) + 1
      BY <3>1, <3>2, FS_AddElement
    <3> QED BY <3>1, <3>3
  <2>3. /\ Cardinality(AnswersFor(c)) + Cardinality(Missed(c)) <= Cardinality(Threads)
        /\ Cardinality(AnswersFor(c)) \in Nat /\ Cardinality(Missed(c)) \in Nat
        /\ Cardinality(Threads) \in Nat
    BY <1>1, CountedFinite DEF Counted
  <2> QED BY <2>1, <2>2, <2>3
<1>9. ASSUME NEW d \in Contents
      PROVE  /\ pool'[d] = Nothing => AnswersFor(d)' = {}
             /\ pool'[d] # Nothing => <<d, pool'[d]>> \in answered'
             /\ Cardinality(AnswersFor(d)') + Cardinality(Missed(d)') <= Cardinality(Threads)
  <2>1. CASE d = c
    BY <1>1, <1>3, <1>4, <1>8, <2>1
  <2>2. CASE d # c
    BY <1>3, <1>4, <1>5, <1>6, <2>2 DEF Counted
  <2> QED BY <2>1, <2>2
<1>11. \A w \in copied' : \E a \in answered' : a[2] = w
  BY <1>3, <1>10 DEF Counted
<1> QED BY <1>7, <1>9, <1>11 DEF Counted

\* A copy is a VALUE nobody was answered before, and is not counted.
LEMMA CountCopy ==
  ASSUME RegInv, MeaningInv, Counted, NEW t \in Threads, AnswerCopy(t)
  PROVE  Counted'
<1>0. PICK c \in Contents, v \in Values : c = content[t] /\ v = value[t]
  BY DEF AnswerCopy, RegInv, HasArguments, Unissued
<1>1. /\ answered' = answered \cup {<<c, v>>} /\ copied' = copied \cup {v} /\ pool' = pool
      /\ regPc[t] = "answer"
  BY <1>0 DEF AnswerCopy, StringDone, tables
<1>2. \A a \in answered : a[2] # v
  BY <1>0, <1>1 DEF MeaningInv, Owned
<1>3. \A d : AnswersFor(d)' = AnswersFor(d)
  <2> DEFINE new == <<c, v>>
  <2>1. new[2] = v /\ answered' = answered \cup {new}
    BY <1>1
  <2> HIDE DEF new
  <2> QED BY <1>1, <1>2, <2>1 DEF AnswersFor
<1>4. \A d : Missed(d)' = Missed(d)
  <2>1. \A u \in Threads \ {t} : regPc'[u] = regPc[u] /\ kind'[u] = kind[u] /\ content'[u] = content[u]
    BY DEF AnswerCopy, StringDone, RegReturn, RegGoto, RegInv, RegTypeOK, callVars
  <2>2. regPc'[t] \in {"idle", "store"}
    BY DEF AnswerCopy, StringDone, RegReturn, RegGoto, RegInv, RegTypeOK
  <2>3. \A d : t \notin Missed(d) /\ t \notin Missed(d)'
    BY <1>1, <2>2 DEF Missed
  <2> QED BY <2>1, <2>3 DEF Missed
<1>5. IsFiniteSet(answered') /\ \A w \in copied' : \E a \in answered' : a[2] = w
  <2> DEFINE new == <<c, v>>
  <2>1. new[2] = v /\ answered' = answered \cup {new}
    BY <1>1
  <2> HIDE DEF new
  <2> QED BY <1>1, <2>1, FS_AddElement DEF Counted
<1> QED BY <1>1, <1>3, <1>4, <1>5 DEF Counted

\* Every step keeps the count.
LEMMA CountStep == RegInv /\ MeaningInv /\ Counted /\ [RegNext]_regVars => Counted'
<1> SUFFICES ASSUME RegInv, MeaningInv, Counted, [RegNext]_regVars PROVE Counted'
  OBVIOUS
<1>1. CASE UNCHANGED regVars
  BY <1>1, CountSame DEF regVars, tables, callVars, histories, Missed
<1>2. ASSUME NEW t \in Threads, RegCall(t) \/ RegProceed(t) PROVE Counted'
  <2>1. CASE PoolLookup(t) \/ RegisterString(t) \/ AnswerCopy(t)
    BY <2>1, CountLookup, CountRegister, CountCopy
  <2> USE DEF RegInv, RegTypeOK, RegGoto, RegReturn, tables, callVars, histories, Missed
  <2>2. CASE RegCall(t)
    BY <2>2, CountSame DEF RegCall, StrToValue, JdrubyToValue, BlockCreate, NewObject, SweepStart
  <2>3. CASE AllocValue(t)
    BY <2>3, CountSame DEF AllocValue
  <2>4. CASE Insert(t)
    BY <2>4, CountSame DEF Insert
  <2>5. CASE InsertClass(t)
    BY <2>5, CountSame DEF InsertClass
  <2>6. CASE StoreBlock(t)
    BY <2>6, CountSame DEF StoreBlock
  <2>7. CASE SweepRemove(t)
    BY <2>7, CountSame DEF SweepRemove
  <2>8. CASE SweepEnd(t)
    BY <2>8, CountSame DEF SweepEnd
  <2>9. CASE NoRoom(t)
    BY <2>9, CountSame DEF NoRoom
  <2> QED BY <1>2, <2>1, <2>2, <2>3, <2>4, <2>5, <2>6, <2>7, <2>8, <2>9 DEF RegProceed
<1> QED BY <1>1, <1>2 DEF RegNext

\* str_to_value answers a string with no more VALUEs than there are threads, for
\* any number of threads and strings, whatever is swept and however often
\* jdruby_to_value copies the string meanwhile: only threads that missed it
\* together allocate it twice.
THEOREM DuplicatesAreBounded == RegSpec => []DuplicatesBounded
<1>1. RegInit => RegInv /\ MeaningInv /\ Counted
  <2> SUFFICES ASSUME RegInit PROVE Counted
    BY RegInitInv, MeaningInit
  <2>1. \A c \in Contents : AnswersFor(c) = {} /\ Missed(c) = {}
    BY DEF RegInit, AnswersFor, Missed
  <2>2. \A c \in Contents : Cardinality(AnswersFor(c)) = 0 /\ Cardinality(Missed(c)) = 0
    BY <2>1, FS_EmptySet
  <2>3. Cardinality(Threads) \in Nat
    BY RegThreadsAssumption, FS_CardinalityType
  <2> QED BY <2>1, <2>2, <2>3, FS_EmptySet DEF RegInit, Counted
<1>2. RegInv /\ MeaningInv /\ Counted /\ [RegNext]_regVars => (RegInv /\ MeaningInv /\ Counted)'
  BY RegStep, MeaningStep, CountStep
<1>3. Counted => DuplicatesBounded
  <2> SUFFICES ASSUME Counted, NEW c \in Contents
               PROVE  Cardinality(AnswersFor(c)) <= Cardinality(Threads)
    BY DEF DuplicatesBounded, AnswersFor
  <2>1. Cardinality(AnswersFor(c)) + Cardinality(Missed(c)) <= Cardinality(Threads)
    BY DEF Counted
  <2>2. /\ Cardinality(AnswersFor(c)) \in Nat /\ Cardinality(Missed(c)) \in Nat
        /\ Cardinality(Threads) \in Nat
    BY CountedFinite
  <2> QED BY <2>1, <2>2
<1> QED BY <1>1, <1>2, <1>3, PTL DEF RegSpec

-----------------------------------------------------------------------------
(* The stack of calls *)

\* The VALUEs known to the program are ids.
LEMMA KnownIds ==
  ASSUME DispTypeOK
  PROVE  /\ DOMAIN supers \subseteq ClassIds
         /\ DOMAIN instanceOf \subseteq ObjectIds
         /\ Known \subseteq HeapIds
BY BoundsAssumption DEF DispTypeOK, Known, ClassIds, ObjectIds, HeapIds

\* What a new class does to the class table, whoever makes it.
LEMMA NewClassTypes ==
  ASSUME DispTypeOK, NEW s \in HeapIds \cup {Nil}, NewClass(s)
  PROVE  /\ supers' \in Seq(HeapIds \cup {Nil})
         /\ Len(supers') <= MaxClasses
         /\ Len(supers') \in ClassIds
BY BoundsAssumption DEF DispTypeOK, NewClass, ClassIds

\* The singleton class of a VALUE is a class, made or found.
LEMMA SingletonTypes ==
  ASSUME DispTypeOK, NEW v \in HeapIds, SingletonClass(v) \/ ResolveClass(v)
  PROVE  /\ supers' \in Seq(HeapIds \cup {Nil}) /\ Len(supers') <= MaxClasses
         /\ singletons' \in [HeapIds -> ClassIds \cup {Nil}]
<1>1. CASE UNCHANGED <<supers, singletons>>
  BY <1>1 DEF DispTypeOK
<1>2. CASE /\ NewClass(Superclass(supers, v))
           /\ singletons' = [singletons EXCEPT ![v] = Len(supers')]
  <2>1. Superclass(supers, v) \in HeapIds \cup {Nil}
    BY DEF Superclass, DispTypeOK
  <2> QED BY <1>2, <2>1, NewClassTypes DEF DispTypeOK
<1> QED BY <1>1, <1>2 DEF SingletonClass, ResolveClass

\* A call leaves the stack as it is or puts a frame of the callee on it.
LEMMA CallShape ==
  ASSUME NEW c, NEW v, NEW n, NEW s \in BOOLEAN, NEW l \in BOOLEAN,
         LookupAndCall(c, v, n, s, l)
  PROVE  \/ UNCHANGED callStateVars
         \/ UNCHANGED <<stack, currentSelf>> /\ stuck' = "loop"
         \/ Enter(v, s, l)
BY DEF LookupAndCall

\* What a step does to the stack, when it changes it.
Pushes == \E v \in HeapIds \cup {Nil}, s, l \in BOOLEAN : (v = Nil => ~s) /\ Enter(v, s, l)
Keeps == UNCHANGED <<stack, currentSelf>> /\ stuck' \in {"no", "lock", "loop"}

\* Every call through the API keeps the tables' types, and pushes at most one
\* frame.
LEMMA CallStep ==
  ASSUME DispTypeOK, DispNext
  PROVE  /\ supers' \in Seq(HeapIds \cup {Nil}) /\ Len(supers') <= MaxClasses
         /\ singletons' \in [HeapIds -> ClassIds \cup {Nil}]
         /\ objectClass' \in ClassIds \cup {Nil}
         /\ instanceOf' \in Seq(ClassIds \cup {Nil}) /\ Len(instanceOf') <= MaxObjects
         /\ methods' \in SUBSET (HeapIds \X Names)
         /\ Keeps \/ Pushes \/ Return
<1> DEFINE Goal == /\ supers' \in Seq(HeapIds \cup {Nil}) /\ Len(supers') <= MaxClasses
                   /\ singletons' \in [HeapIds -> ClassIds \cup {Nil}]
                   /\ objectClass' \in ClassIds \cup {Nil}
                   /\ instanceOf' \in Seq(ClassIds \cup {Nil}) /\ Len(instanceOf') <= MaxObjects
                   /\ methods' \in SUBSET (HeapIds \X Names)
                   /\ Keeps \/ Pushes \/ Return
<1> USE DEF DispTypeOK, callStateVars, tableVars
<1>1. ASSUME UNCHANGED callStateVars PROVE Keeps
  BY <1>1 DEF Keeps
<1>2. ASSUME NEW c, NEW v \in HeapIds, NEW n, NEW s \in BOOLEAN, NEW l \in BOOLEAN,
             LookupAndCall(c, v, n, s, l)
      PROVE  Keeps \/ Pushes
  <2>1. v # Nil
    BY DEF HeapIds, ClassIds, ObjectIds, Nil
  <2> QED BY <1>2, <2>1, CallShape DEF Keeps, Pushes
<1>3. CASE DefineClass
  <2>1. PICK s \in DOMAIN supers \cup {Nil} : NewClass(s)
    BY <1>3 DEF DefineClass
  <2>2. s \in HeapIds \cup {Nil}
    BY KnownIds DEF HeapIds
  <2> QED BY <1>1, <1>3, <2>1, <2>2, NewClassTypes DEF DefineClass
<1>4. CASE ExtendModule
  BY <1>1, <1>4, NewClassTypes DEF ExtendModule
<1>5. CASE NewString
  BY <1>1, <1>5, BoundsAssumption DEF NewString
<1>6. CASE WaitForStorage
  BY <1>6 DEF WaitForStorage, Keeps
<1>7. CASE Yield
  BY <1>7 DEF Yield, Pushes
<1>8. CASE Return
  BY <1>8 DEF Return
<1>9. ASSUME NEW v \in Known, CvarSet(v) \/ SingletonClassGet(v) PROVE Goal
  <2>1. v \in HeapIds
    BY KnownIds
  <2>2. CASE CvarSet(v)
    BY <1>1, <2>1, <2>2, NewClassTypes DEF CvarSet
  <2>3. CASE SingletonClassGet(v)
    <3>1. Keeps /\ UNCHANGED <<objectClass, instanceOf, methods>> /\ SingletonClass(v)
      BY <1>1, <2>3 DEF SingletonClassGet
    <3> QED BY <2>1, <3>1, SingletonTypes
  <2> QED BY <1>9, <2>2, <2>3
<1>10. ASSUME NEW k \in DOMAIN supers, New(k) PROVE Goal
  <2> DEFINE o == Len(instanceOf) + 1
  <2>1. k \in ClassIds /\ o \in ObjectIds /\ o \in HeapIds
    BY <1>10, KnownIds, BoundsAssumption DEF New, ObjectIds, HeapIds
  <2>2. instanceOf' \in Seq(ClassIds \cup {Nil}) /\ Len(instanceOf') <= MaxObjects
    BY <1>10, <2>1, BoundsAssumption DEF New
  <2>3. UNCHANGED <<objectClass, methods>>
    BY <1>10 DEF New
  <2>4. CASE UNCHANGED <<supers, singletons, stack, currentSelf>> /\ stuck' = "lock"
    BY <2>2, <2>3, <2>4 DEF Keeps
  <2>5. CASE /\ ResolveClass(o)
             /\ LookupAndCall(IF IsClass(o) THEN singletons'[o] ELSE k, o, "initialize", TRUE, TRUE)
    <3>1. Keeps \/ Pushes
      BY <1>2, <2>1, <2>5
    <3> QED BY <2>1, <2>2, <2>3, <2>5, <3>1, SingletonTypes
  <2> QED BY <1>10, <2>4, <2>5 DEF New
<1>11. ASSUME NEW v \in Known, NEW n \in Names,
              \/ DefineMethod(v, n) \/ RemoveMethod(v, n)
              \/ \E old \in Names : AliasMethod(v, n, old)
       PROVE  Goal
  <2>1. v \in HeapIds
    BY KnownIds
  <2>2. methods' \in SUBSET (HeapIds \X Names)
    <3>1. methods' \subseteq methods \cup {<<v, n>>}
      BY <1>11 DEF DefineMethod, RemoveMethod, AliasMethod
    <3> QED BY <2>1, <3>1
  <2>3. UNCHANGED <<tableVars, instanceOf, callStateVars>>
    <3>1. CASE DefineMethod(v, n)
      BY <3>1 DEF DefineMethod
    <3>2. CASE RemoveMethod(v, n)
      BY <3>2 DEF RemoveMethod
    <3>3. CASE \E old \in Names : AliasMethod(v, n, old)
      BY <3>3 DEF AliasMethod
    <3> QED BY <1>11, <3>1, <3>2, <3>3
  <2> QED BY <1>1, <2>2, <2>3
<1>12. ASSUME NEW v \in Known, NEW n \in Names, Send(v, n) PROVE Goal
  <2>1. v \in HeapIds
    BY KnownIds
  <2>2. Keeps \/ Pushes
    BY <1>2, <1>12, <2>1 DEF Send
  <2> QED BY <1>12, <2>2 DEF Send
<1>13. ASSUME NEW v \in Known, NEW n \in Names, PublicSend(v, n) \/ RespondTo(v, n) PROVE Goal
  <2>1. v \in HeapIds
    BY KnownIds
  <2>2. ResolveClass(v) /\ UNCHANGED <<objectClass, instanceOf, methods>>
    BY <1>13 DEF PublicSend, RespondTo
  <2>3. Keeps \/ Pushes
    BY <1>2, <1>13, <2>1 DEF PublicSend, RespondTo, Keeps
  <2> QED BY <2>1, <2>2, <2>3, SingletonTypes
<1>14. ASSUME NEW v \in Known \cup {Nil}, NEW n \in Names, SendDynamic(v, n) PROVE Goal
  <2> DEFINE r == Effective(v)
  <2>1. r \in HeapIds
    BY <1>14, KnownIds DEF SendDynamic, Effective, HeapIds
  <2>2. /\ ResolveClass(r) /\ UNCHANGED <<objectClass, instanceOf, methods>>
        /\ LookupAndCall(ObjectClass(r), r, n, TRUE, FALSE)
    BY <1>14 DEF SendDynamic
  <2> HIDE DEF r
  <2>3. Keeps \/ Pushes
    BY <1>2, <2>1, <2>2
  <2> QED BY <2>1, <2>2, <2>3, SingletonTypes
<1> QED BY <1>3, <1>4, <1>5, <1>6, <1>7, <1>8, <1>9, <1>10, <1>11, <1>12, <1>13, <1>14 DEF DispNext

\* The stack of calls only ever holds frames, and the self it names is that of
\* the innermost frame that set one.
LEMMA StackStep ==
  ASSUME DispTypeOK, NoForeignSelf, Keeps \/ Pushes \/ Return
  PROVE  /\ stack' \in Seq(Frames) /\ Len(stack') <= MaxDepth
         /\ currentSelf' \in HeapIds \cup {Nil}
         /\ stuck' \in {"no", "lock", "loop"}
         /\ NoForeignSelf'
<1> USE DEF DispTypeOK
<1>1. CASE Keeps
  BY <1>1 DEF Keeps, NoForeignSelf
<1>2. CASE Pushes
  <2>1. PICK v \in HeapIds \cup {Nil}, s \in BOOLEAN, l \in BOOLEAN :
          (v = Nil => ~s) /\ Enter(v, s, l)
    BY <1>2 DEF Pushes
  <2> DEFINE frame == [recv |-> v, setsSelf |-> s, locked |-> l]
  <2>2. frame \in Frames /\ frame.recv = v /\ frame.setsSelf = s
    BY DEF Frames
  <2> HIDE DEF frame
  <2>3. /\ stack' = Append(stack, frame) /\ Len(stack) < MaxDepth
        /\ currentSelf' = (IF s THEN v ELSE currentSelf) /\ stuck' = stuck
    BY <2>1 DEF Enter, frame
  <2>4. /\ stack' \in Seq(Frames) /\ Len(stack') = Len(stack) + 1
        /\ stack'[Len(stack) + 1] = frame
        /\ \A i \in DOMAIN stack : stack'[i] = stack[i]
        /\ DOMAIN stack' = DOMAIN stack \cup {Len(stack) + 1}
    BY <2>2, <2>3
  <2>5. Len(stack') <= MaxDepth
    BY <2>3, <2>4, BoundsAssumption
  <2>6. NoForeignSelf'
    <3> SUFFICES ASSUME currentSelf' # Nil
                 PROVE  \E i \in DOMAIN stack' :
                          /\ stack'[i].setsSelf /\ stack'[i].recv = currentSelf'
                          /\ \A j \in DOMAIN stack' : j > i => ~stack'[j].setsSelf
      BY DEF NoForeignSelf
    <3>1. CASE s
      <4>1. stack'[Len(stack) + 1].setsSelf /\ stack'[Len(stack) + 1].recv = currentSelf'
        BY <2>2, <2>3, <2>4, <3>1
      <4>2. \A j \in DOMAIN stack' : ~(j > Len(stack) + 1)
        BY <2>4
      <4> QED BY <2>4, <4>1, <4>2
    <3>2. CASE ~s
      <4>1. PICK i \in DOMAIN stack :
              /\ stack[i].setsSelf /\ stack[i].recv = currentSelf
              /\ \A j \in DOMAIN stack : j > i => ~stack[j].setsSelf
        BY <2>3, <3>2 DEF NoForeignSelf
      <4>2. ~stack'[Len(stack) + 1].setsSelf
        BY <2>2, <2>4, <3>2
      <4>3. \A j \in DOMAIN stack' : j > i => ~stack'[j].setsSelf
        BY <2>4, <4>1, <4>2
      <4> QED BY <2>3, <2>4, <3>2, <4>1, <4>3
    <3> QED BY <3>1, <3>2
  <2> QED BY <2>3, <2>4, <2>5, <2>6
<1>3. CASE Return
  <2>1. /\ stack # <<>> /\ stuck' = stuck
        /\ stack' = SubSeq(stack, 1, Len(stack) - 1)
        /\ currentSelf' = IF stack[Len(stack)].setsSelf THEN Nil ELSE currentSelf
    BY <1>3 DEF Return
  <2>2. /\ stack' \in Seq(Frames) /\ Len(stack') = Len(stack) - 1
        /\ \A i \in DOMAIN stack' : i \in DOMAIN stack /\ stack'[i] = stack[i]
        /\ DOMAIN stack' = DOMAIN stack \ {Len(stack)}
    <3>1. Len(stack) \in Nat /\ Len(stack) >= 1 /\ DOMAIN stack = 1..Len(stack)
      BY <2>1
    <3>2. stack' \in Seq(Frames) /\ Len(stack') = Len(stack) - 1
      BY <2>1, <3>1
    <3>3. DOMAIN stack' = 1..(Len(stack) - 1)
      BY <3>2
    <3>4. \A i \in 1..(Len(stack) - 1) : stack'[i] = stack[i]
      BY <2>1, <3>1
    <3> QED BY <3>1, <3>2, <3>3, <3>4
  <2>3. Len(stack') <= MaxDepth
    BY <2>2, BoundsAssumption
  <2>4. NoForeignSelf'
    <3> SUFFICES ASSUME currentSelf' # Nil
                 PROVE  \E i \in DOMAIN stack' :
                          /\ stack'[i].setsSelf /\ stack'[i].recv = currentSelf'
                          /\ \A j \in DOMAIN stack' : j > i => ~stack'[j].setsSelf
      BY DEF NoForeignSelf
    <3>1. ~stack[Len(stack)].setsSelf /\ currentSelf' = currentSelf
      BY <2>1
    <3>2. PICK i \in DOMAIN stack :
            /\ stack[i].setsSelf /\ stack[i].recv = currentSelf
            /\ \A j \in DOMAIN stack : j > i => ~stack[j].setsSelf
      BY <3>1 DEF NoForeignSelf
    <3>3. i \in DOMAIN stack'
      BY <2>2, <3>1, <3>2
    <3> QED BY <2>2, <3>1, <3>2, <3>3
  <2> QED BY <2>1, <2>2, <2>3, <2>4
<1> QED BY <1>1, <1>2, <1>3

\* The inductive invariant.
DispInv == DispTypeOK /\ NoForeignSelf

\* The program starts at top level with an empty class table.
LEMMA DispInitInv == DispInit => DispInv
BY BoundsAssumption DEF DispInit, DispInv, DispTypeOK, NoForeignSelf

\* Every step preserves it.
LEMMA DispStep == DispInv /\ [DispNext]_dispVars => DispInv'
<1> SUFFICES ASSUME DispInv, [DispNext]_dispVars PROVE DispInv'
  OBVIOUS
<1>1. CASE DispNext
  BY <1>1, CallStep, StackStep DEF DispInv, DispTypeOK
<1>2. CASE UNCHANGED dispVars
  BY <1>2 DEF DispInv, DispTypeOK, NoForeignSelf, dispVars, tableVars, callStateVars
<1> QED BY <1>1, <1>2

LEMMA DispInvariant == DispSpec => []DispInv
BY DispInitInv, DispStep, PTL DEF DispSpec

\* The class table, the storage and the stack keep their types for every bound.
THEOREM DispTypeCorrect == DispSpec => []DispTypeOK
<1>1. DispInv => DispTypeOK
  BY DEF DispInv
<1> QED BY <1>1, DispInvariant, PTL

\* current_self never names the receiver of a method that has returned or that
\* called another one with a receiver, for every hierarchy and every nesting.
THEOREM SelfIsNeverForeign == DispSpec => []NoForeignSelf
<1>1. DispInv => NoForeignSelf
  BY DEF DispInv
<1> QED BY <1>1, DispInvariant, PTL

-----------------------------------------------------------------------------
(* Singleton classes *)

\* What a step does to the classes: it may add some, and when it gives a VALUE
\* its singleton class, that is a class it has just added.
Unchanged == singletons' = singletons /\ Len(supers) <= Len(supers')
Given(v) ==
  /\ singletons[v] = Nil
  /\ Len(supers') = Len(supers) + 1
  /\ singletons' = [singletons EXCEPT ![v] = Len(supers')]
ClassesGrow == Unchanged \/ \E v \in HeapIds : Given(v)

\* A singleton class is one of the classes.
SingletonsListed == \A v \in HeapIds : singletons[v] <= Len(supers)

\* A new class comes after the others.
LEMMA NewClassLast ==
  ASSUME DispTypeOK, NEW s, NewClass(s)
  PROVE  Len(supers') = Len(supers) + 1 /\ Len(supers) \in Nat
BY DEF DispTypeOK, NewClass

\* Looking for the singleton class of a VALUE makes one only if there is none.
LEMMA SingletonGrows ==
  ASSUME DispTypeOK, NEW v \in HeapIds, SingletonClass(v) \/ ResolveClass(v)
  PROVE  ClassesGrow
<1>1. Len(supers) \in Nat
  BY DEF DispTypeOK
<1>2. CASE UNCHANGED <<supers, singletons>>
  BY <1>1, <1>2 DEF ClassesGrow, Unchanged
<1>3. CASE /\ singletons[v] = Nil
           /\ NewClass(Superclass(supers, v))
           /\ singletons' = [singletons EXCEPT ![v] = Len(supers')]
  BY <1>3, NewClassLast DEF ClassesGrow, Given
<1> QED BY <1>2, <1>3 DEF SingletonClass, ResolveClass

\* So does every call of the API.
LEMMA DispGrows == DispTypeOK /\ [DispNext]_dispVars => ClassesGrow
<1> SUFFICES ASSUME DispTypeOK, [DispNext]_dispVars PROVE ClassesGrow
  OBVIOUS
<1>1. Len(supers) \in Nat
  BY DEF DispTypeOK
<1>2. ASSUME UNCHANGED <<supers, singletons>> PROVE ClassesGrow
  BY <1>1, <1>2 DEF ClassesGrow, Unchanged
<1>3. ASSUME NEW s, NewClass(s), singletons' = singletons PROVE ClassesGrow
  BY <1>1, <1>3, NewClassLast DEF ClassesGrow, Unchanged
<1>4. CASE UNCHANGED dispVars
  BY <1>2, <1>4 DEF dispVars, tableVars
<1>5. CASE DefineClass \/ ExtendModule
  BY <1>3, <1>5 DEF DefineClass, ExtendModule
<1>6. CASE NewString \/ WaitForStorage \/ Yield \/ Return
  BY <1>2, <1>6 DEF NewString, WaitForStorage, Yield, Return, tableVars
<1>7. ASSUME NEW v \in Known, CvarSet(v) \/ SingletonClassGet(v) PROVE ClassesGrow
  BY <1>3, <1>7, KnownIds, SingletonGrows DEF CvarSet, SingletonClassGet
<1>8. ASSUME NEW k \in DOMAIN supers, New(k) PROVE ClassesGrow
  <2> DEFINE o == Len(instanceOf) + 1
  <2>1. o \in HeapIds
    BY <1>8, BoundsAssumption DEF New, DispTypeOK, HeapIds, ObjectIds
  <2>2. CASE UNCHANGED <<supers, singletons>>
    BY <1>2, <2>2
  <2>3. CASE ResolveClass(o)
    BY <2>1, <2>3, SingletonGrows
  <2> QED BY <1>8, <2>2, <2>3 DEF New
<1>9. ASSUME NEW v \in Known, NEW n \in Names,
             \/ DefineMethod(v, n) \/ RemoveMethod(v, n) \/ Send(v, n)
             \/ \E old \in Names : AliasMethod(v, n, old)
      PROVE  ClassesGrow
  BY <1>2, <1>9 DEF DefineMethod, RemoveMethod, Send, AliasMethod, tableVars
<1>10. ASSUME NEW v \in Known, NEW n \in Names, PublicSend(v, n) \/ RespondTo(v, n)
       PROVE  ClassesGrow
  BY <1>10, KnownIds, SingletonGrows DEF PublicSend, RespondTo
<1>11. ASSUME NEW v \in Known \cup {Nil}, NEW n \in Names, SendDynamic(v, n) PROVE ClassesGrow
  <2>1. Effective(v) \in HeapIds
    BY <1>11, KnownIds DEF SendDynamic, Effective, HeapIds, DispTypeOK
  <2>2. ResolveClass(Effective(v))
    BY <1>11 DEF SendDynamic
  <2> QED BY <2>1, <2>2, SingletonGrows
<1> QED BY <1>4, <1>5, <1>6, <1>7, <1>8, <1>9, <1>10, <1>11 DEF DispNext

\* Since a class just added is no one's singleton class yet, two VALUEs never
\* share one, and since it is given to a VALUE without one, it is kept: for
\* every bound on classes, objects and nesting.
THEOREM SingletonClassesAreKept == DispSpec => SingletonsKept
<1> DEFINE Kept ==
  \A v \in HeapIds :
    singletons'[v] # singletons[v] =>
      /\ singletons[v] = Nil
      /\ \A w \in HeapIds : singletons[w] # singletons'[v]
<1>1. DispInit => DispInv /\ SingletonsListed
  <2>1. DispInit => SingletonsListed
    BY DEF DispInit, SingletonsListed, Nil
  <2> QED BY <2>1, DispInitInv
<1>2. ASSUME DispInv, SingletonsListed, [DispNext]_dispVars
      PROVE  DispInv' /\ SingletonsListed' /\ Kept
  <2>1. DispInv' /\ DispTypeOK /\ ClassesGrow
    BY <1>2, DispStep, DispGrows DEF DispInv
  <2>2. /\ Len(supers) \in Nat /\ Len(supers') \in Nat
        /\ \A v \in HeapIds : singletons[v] \in Nat /\ singletons[v] <= Len(supers)
    BY <1>2, <2>1, BoundsAssumption
       DEF DispInv, DispTypeOK, SingletonsListed, ClassIds, Nil
  <2>3. CASE Unchanged
    <3>1. singletons' = singletons /\ Len(supers) <= Len(supers')
      BY <2>3 DEF Unchanged
    <3>2. \A v \in HeapIds : singletons[v] <= Len(supers')
      BY <2>2, <3>1
    <3>3. SingletonsListed'
      BY <3>1, <3>2 DEF SingletonsListed
    <3>4. Kept
      BY <3>1
    <3> QED BY <2>1, <3>3, <3>4
  <2>4. ASSUME NEW v \in HeapIds, Given(v) PROVE SingletonsListed' /\ Kept
    <3>1. /\ \A w \in HeapIds \ {v} : singletons'[w] = singletons[w]
          /\ singletons'[v] = Len(supers) + 1 /\ Len(supers') = Len(supers) + 1
          /\ singletons[v] = Nil
      BY <2>1, <2>4 DEF Given, DispTypeOK
    <3>2. SingletonsListed'
      BY <2>2, <3>1 DEF SingletonsListed
    <3>3. \A w \in HeapIds : singletons[w] # Len(supers) + 1
      BY <2>2
    <3> QED BY <3>1, <3>2, <3>3
  <2> QED BY <2>1, <2>3, <2>4 DEF ClassesGrow
<1>3. DispSpec => [][DispInv /\ SingletonsListed /\ Kept]_dispVars
  BY <1>1, <1>2, PTL DEF DispSpec
<1> QED BY <1>3, PTL DEF SingletonsKept

-----------------------------------------------------------------------------
(* The bridge as a whole *)

\* A step of the bridge is a step of one half, or none, for each half.
LEMMA HalvesStep ==
  [BridgeNext]_bridgeVars => [RegNext]_regVars /\ [DispNext]_dispVars
BY DEF BridgeNext, bridgeVars

\* What was proved of the tables and of the stack of calls holds of the bridge
\* that MCBridge runs.
LEMMA BridgeRefines == BridgeSpec => RegSpec /\ DispSpec
<1>1. BridgeInit => RegInit /\ DispInit
  BY DEF BridgeInit
<1> QED BY <1>1, HalvesStep, PTL DEF BridgeSpec, RegSpec, DispSpec

\* Tables, storage and stack keep the types their Rust declarations give them,
\* whichever calls the threads make.
THEOREM BridgeTypeCorrect == BridgeSpec => []TypeOK
<1>1. RegTypeOK /\ DispTypeOK => TypeOK
  BY DEF TypeOK
<1> QED BY <1>1, BridgeRefines, RegTypeCorrect, DispTypeCorrect, PTL
=============================================================================
