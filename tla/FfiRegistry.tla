------------------------------ MODULE FfiRegistry ------------------------------
(***************************************************************************)
(* The bridge of jdruby-ffi between Ruby objects and C VALUEs: Registry    *)
(* (bridge/registry.rs), the string pool (bridge/dedup.rs), the allocation *)
(* of strings and objects (bridge/conversion.rs, capi/runtime.rs) and the  *)
(* sweep.                                                                  *)
(*                                                                         *)
(* Each table has its own lock, held for one access, so an access is one   *)
(* step and a call is several.  A VALUE is numbered by the order in which  *)
(* alloc_value gives it out.  Where a heap without room ends the process   *)
(* (expect in an extern "C" function) it is left out.                      *)
(***************************************************************************)
EXTENDS Naturals, FiniteSets

CONSTANTS Threads,
          Contents,    \* what strings say; a block's string is its function's name
          Captures,    \* values a block captures
          Classes,     \* class VALUEs
          MaxValues,   \* bound on alloc_value
          Nothing      \* the absent value of an Option

ASSUME RegThreadsAssumption == IsFiniteSet(Threads)
ASSUME MaxValuesAssumption == MaxValues \in Nat
ASSUME NothingAssumption == Nothing \notin Contents \cup Captures \cup Classes \cup Nat \cup {"object"}
ASSUME KindsAssumption == "object" \notin Contents

VARIABLES nextId,      \* Registry.next_id
          objects,     \* Registry.objects: what a VALUE stands for
          classOf,     \* Registry.object_classes
          blocks,      \* Registry.blocks: the captures stored for a VALUE
          pool,        \* StringPool.map
          regPc,       \* where each thread is inside its call
          kind, content, capture, class,   \* the arguments of the call
          value,       \* the VALUE it has in hand
          toSweep,     \* the snapshot a sweeping thread works through
          answered,    \* history: strings returned, as <<content, VALUE>>
          copied,      \* history: the VALUEs jdruby_to_value returned
          made,        \* history: blocks returned, as <<VALUE, captures>>
          swept        \* history: the VALUEs a sweep removed

tables == <<objects, classOf, blocks, pool>>
callVars == <<kind, content, capture, class>>
histories == <<answered, copied, made, swept>>
regVars == <<nextId, tables, regPc, callVars, value, toSweep, histories>>

Values == 1..MaxValues

RegTypeOK ==
  /\ nextId \in 0..MaxValues
  /\ objects \in [Values -> Contents \cup {"object", Nothing}]
  /\ classOf \in [Values -> Classes \cup {Nothing}]
  /\ blocks \in [Values -> Captures \cup {Nothing}]
  /\ pool \in [Contents -> Values \cup {Nothing}]
  /\ regPc \in [Threads -> {"idle", "lookup", "alloc", "insert", "pool", "answer", "store",
                            "class", "sweep"}]
  /\ kind \in [Threads -> {"string", "copy", "block", "object"}]
  /\ content \in [Threads -> Contents \cup {Nothing}]
  /\ capture \in [Threads -> Captures \cup {Nothing}]
  /\ class \in [Threads -> Classes \cup {Nothing}]
  /\ value \in [Threads -> Values \cup {Nothing}]
  /\ toSweep \in [Threads -> SUBSET Values]
  /\ answered \in SUBSET (Contents \X Values)
  /\ copied \in SUBSET Values
  /\ made \in SUBSET (Values \X Captures)
  /\ swept \in SUBSET Values

RegInit ==
  /\ nextId = 0
  /\ objects = [v \in Values |-> Nothing]
  /\ classOf = [v \in Values |-> Nothing]
  /\ blocks = [v \in Values |-> Nothing]
  /\ pool = [c \in Contents |-> Nothing]
  /\ regPc = [t \in Threads |-> "idle"]
  /\ kind = [t \in Threads |-> "string"]
  /\ content = [t \in Threads |-> Nothing]
  /\ capture = [t \in Threads |-> Nothing]
  /\ class = [t \in Threads |-> Nothing]
  /\ value = [t \in Threads |-> Nothing]
  /\ toSweep = [t \in Threads |-> {}]
  /\ answered = {}
  /\ copied = {}
  /\ made = {}
  /\ swept = {}

RegGoto(t, l) == regPc' = [regPc EXCEPT ![t] = l]

\* The call returns and forgets its locals.
RegReturn(t) ==
  /\ RegGoto(t, "idle")
  /\ kind' = [kind EXCEPT ![t] = "string"]
  /\ content' = [content EXCEPT ![t] = Nothing]
  /\ capture' = [capture EXCEPT ![t] = Nothing]
  /\ class' = [class EXCEPT ![t] = Nothing]
  /\ value' = [value EXCEPT ![t] = Nothing]

-----------------------------------------------------------------------------
(* The calls *)

\* str_to_value(s), which rb_str_new and the string functions of the C API ask
StrToValue(t) ==
  /\ regPc[t] = "idle"
  /\ \E c \in Contents : content' = [content EXCEPT ![t] = c]
  /\ RegGoto(t, "lookup")
  /\ UNCHANGED <<nextId, tables, kind, capture, class, value, toSweep, histories>>

\* jdruby_to_value(s), as rb_ary_dup does with every string of the array:
\* allocate_rstring without a look at the pool
JdrubyToValue(t) ==
  /\ regPc[t] = "idle"
  /\ \E c \in Contents : content' = [content EXCEPT ![t] = c]
  /\ kind' = [kind EXCEPT ![t] = "copy"]
  /\ RegGoto(t, "alloc")
  /\ UNCHANGED <<nextId, tables, capture, class, value, toSweep, histories>>

\* jdruby_block_create(func, captured): the block's VALUE is rb_str_new(func)
BlockCreate(t) ==
  /\ regPc[t] = "idle"
  /\ \E c \in Contents : content' = [content EXCEPT ![t] = c]
  /\ \E k \in Captures : capture' = [capture EXCEPT ![t] = k]
  /\ kind' = [kind EXCEPT ![t] = "block"]
  /\ RegGoto(t, "lookup")
  /\ UNCHANGED <<nextId, tables, class, value, toSweep, histories>>

\* jdruby_send_dynamic(class, :new)
NewObject(t) ==
  /\ regPc[t] = "idle"
  /\ \E k \in Classes : class' = [class EXCEPT ![t] = k]
  /\ kind' = [kind EXCEPT ![t] = "object"]
  /\ RegGoto(t, "alloc")
  /\ UNCHANGED <<nextId, tables, content, capture, value, toSweep, histories>>

\* What becomes of a string's VALUE: it is returned, or a block's captures are
\* still to be stored for it.
StringDone(t, v) ==
  /\ answered' = answered \cup {<<content[t], v>>}
  /\ \/ kind[t] \in {"string", "copy"} /\ RegReturn(t)
     \/ /\ kind[t] = "block"
        /\ value' = [value EXCEPT ![t] = v]
        /\ RegGoto(t, "store")
        /\ UNCHANGED callVars

\* The fast path: STRING_POOL is read-locked for the lookup alone.
PoolLookup(t) ==
  /\ regPc[t] = "lookup"
  /\ \/ pool[content[t]] # Nothing /\ StringDone(t, pool[content[t]])
     \/ /\ pool[content[t]] = Nothing
        /\ RegGoto(t, "alloc")
        /\ UNCHANGED <<answered, callVars, value>>
  /\ UNCHANGED <<nextId, tables, toSweep, copied, made, swept>>

\* Mutant: the next VALUE is computed from the number of registered objects.
AllocValueByLen(t) ==
  LET live == {v \in Values : objects[v] # Nothing}
  IN  /\ regPc[t] = "alloc"
      /\ Cardinality(live) < MaxValues
      /\ nextId' = Cardinality(live)
      /\ value' = [value EXCEPT ![t] = Cardinality(live) + 1]
      /\ RegGoto(t, "insert")
      /\ UNCHANGED <<tables, callVars, toSweep, histories>>

\* alloc_value(): the mutex and the fetch_add
AllocValue(t) ==
  /\ regPc[t] = "alloc"
  /\ nextId < MaxValues
  /\ nextId' = nextId + 1
  /\ value' = [value EXCEPT ![t] = nextId + 1]
  /\ RegGoto(t, "insert")
  /\ UNCHANGED <<tables, callVars, toSweep, histories>>

\* allocate_rstring finds no room: jdruby_to_value answers nil.
NoRoom(t) ==
  /\ regPc[t] = "alloc"
  /\ kind[t] = "copy"
  /\ RegReturn(t)
  /\ UNCHANGED <<nextId, tables, toSweep, histories>>

\* Registry::insert, or the first half of insert_with_class
Insert(t) ==
  /\ regPc[t] = "insert"
  /\ objects' = [objects EXCEPT ![value[t]] =
                   IF kind[t] = "object" THEN "object" ELSE content[t]]
  /\ RegGoto(t, CASE kind[t] = "object" -> "class"
                  [] kind[t] = "copy" -> "answer"
                  [] OTHER -> "pool")
  /\ UNCHANGED <<nextId, classOf, blocks, pool, callVars, value, toSweep, histories>>

\* jdruby_to_value returns what was inserted for it.
AnswerCopy(t) ==
  /\ regPc[t] = "answer"
  /\ StringDone(t, value[t])
  /\ copied' = copied \cup {value[t]}
  /\ UNCHANGED <<nextId, tables, toSweep, made, swept>>

\* The second half of insert_with_class, under the other lock
InsertClass(t) ==
  /\ regPc[t] = "class"
  /\ classOf' = [classOf EXCEPT ![value[t]] = class[t]]
  /\ RegReturn(t)
  /\ UNCHANGED <<nextId, objects, blocks, pool, toSweep, answered, copied, made, swept>>

\* Mutant: the pool is asked and never told.
RegisterNothing(t) ==
  /\ regPc[t] = "pool"
  /\ StringDone(t, value[t])
  /\ UNCHANGED <<nextId, tables, toSweep, copied, made, swept>>

\* StringPool::register, whatever has been registered since the lookup
RegisterString(t) ==
  /\ regPc[t] = "pool"
  /\ pool' = [pool EXCEPT ![content[t]] = value[t]]
  /\ StringDone(t, value[t])
  /\ UNCHANGED <<nextId, objects, classOf, blocks, toSweep, copied, made, swept>>

\* Mutant: function and captures are swapped.
StoreBlockSwapped(t) ==
  /\ regPc[t] = "store"
  /\ blocks' = [blocks EXCEPT ![value[t]] = content[t]]
  /\ made' = made \cup {<<value[t], capture[t]>>}
  /\ RegReturn(t)
  /\ UNCHANGED <<nextId, objects, classOf, pool, toSweep, answered, copied, swept>>

\* Registry::store_block
StoreBlock(t) ==
  /\ regPc[t] = "store"
  /\ blocks' = [blocks EXCEPT ![value[t]] = capture[t]]
  /\ made' = made \cup {<<value[t], capture[t]>>}
  /\ RegReturn(t)
  /\ UNCHANGED <<nextId, objects, classOf, pool, toSweep, answered, copied, swept>>

-----------------------------------------------------------------------------
(* ffi_registry_sweep: a snapshot of the VALUEs, then one remove for each. *)
(* Neither the pool nor the classes nor the blocks are told.               *)

SweepStart(t) ==
  /\ regPc[t] = "idle"
  /\ toSweep' = [toSweep EXCEPT ![t] = {v \in Values : objects[v] # Nothing}]
  /\ RegGoto(t, "sweep")
  /\ UNCHANGED <<nextId, tables, callVars, value, histories>>

SweepRemove(t) ==
  /\ regPc[t] = "sweep"
  /\ \E v \in toSweep[t] :
       /\ objects' = [objects EXCEPT ![v] = Nothing]
       /\ toSweep' = [toSweep EXCEPT ![t] = @ \ {v}]
       /\ swept' = swept \cup {v}
  /\ UNCHANGED <<nextId, classOf, blocks, pool, regPc, callVars, value, answered, copied, made>>

SweepEnd(t) ==
  /\ regPc[t] = "sweep"
  /\ toSweep[t] = {}
  /\ RegReturn(t)
  /\ UNCHANGED <<nextId, tables, toSweep, histories>>

-----------------------------------------------------------------------------
RegCall(t) ==
  StrToValue(t) \/ JdrubyToValue(t) \/ BlockCreate(t) \/ NewObject(t) \/ SweepStart(t)

RegProceed(t) ==
  \/ PoolLookup(t) \/ AllocValue(t) \/ NoRoom(t) \/ Insert(t) \/ InsertClass(t)
  \/ RegisterString(t) \/ AnswerCopy(t) \/ StoreBlock(t) \/ SweepRemove(t) \/ SweepEnd(t)

RegNext == \E t \in Threads : RegCall(t) \/ RegProceed(t)

RegSpec == RegInit /\ [][RegNext]_regVars

-----------------------------------------------------------------------------
(* Properties *)

\* A VALUE returned for a string stands for that string until it is swept:
\* whatever allocations, lookups and sweeps of other threads are interleaved,
\* no one is handed a VALUE that is not registered yet or means another thing.
AnswersResolve ==
  \A a \in answered : objects[a[2]] = a[1] \/ a[2] \in swept

\* Of str_to_value: check-then-allocate lets threads allocate one string several
\* times, but only those that missed together, so it answers a string with no
\* more VALUEs than there are threads, sweeps and the copies of jdruby_to_value
\* notwithstanding.  Those are not counted: there is one for every call.
DuplicatesBounded ==
  \A c \in Contents :
    Cardinality({a \in answered : a[1] = c /\ a[2] \notin copied}) <= Cardinality(Threads)

\* What jdruby_block_create returns gives back the values the block captured
\* when it is yielded to: registry.rs on the blocks table, "This ensures each
\* block instance has its own captures".
BlocksKeepCaptures == \A m \in made : blocks[m[1]] = m[2]
=============================================================================
