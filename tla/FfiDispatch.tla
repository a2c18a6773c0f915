------------------------------ MODULE FfiDispatch ------------------------------
(***************************************************************************)
(* Method calls through the C API of jdruby-ffi: the class table           *)
(* (storage/class_table.rs), the method storage (storage/                  *)
(* method_storage.rs) and the entry points of capi/runtime.rs and          *)
(* capi/class.rs that call Ruby methods.  One Ruby thread; a called method *)
(* may make every call of the API before it returns, so the model is the   *)
(* stack of calls.                                                         *)
(*                                                                         *)
(* Class VALUEs and object VALUEs are numbered from the same start by the  *)
(* same step (class_table.rs and registry.rs), so both are 1, 2, 3, ...    *)
(* here.  nil is 0.  Receivers are heap VALUEs: the classes of numbers and *)
(* booleans, the methods the entry points answer themselves (puts, to_s,   *)
(* ...), the text of the last error and what methods return are left out.  *)
(***************************************************************************)
EXTENDS Naturals, Sequences

CONSTANTS Names,        \* names of methods the program defines
          MaxClasses,   \* bound on define_class and singleton_class
          MaxObjects,   \* bound on alloc_value
          MaxDepth      \* bound on nested calls

ASSUME InitializeAssumption == "initialize" \in Names
ASSUME BoundsAssumption == MaxClasses \in Nat /\ MaxObjects \in Nat /\ MaxDepth \in Nat

VARIABLES supers,       \* ClassTable.hierarchy: the superclass of the i-th class
          singletons,   \* ClassTable.singleton_classes
          objectClass,  \* what class_by_name("Object") answers
          instanceOf,   \* Registry.object_classes: the class of the i-th object,
                        \* nil for strings, arrays and floats
          methods,      \* the keys of MethodStorage.methods
          stack,        \* the methods and blocks running, outermost first
          currentSelf,  \* Registry.current_self
          stuck         \* why the thread goes no further

tableVars == <<supers, singletons, objectClass>>
callStateVars == <<stack, currentSelf, stuck>>
dispVars == <<tableVars, instanceOf, methods, callStateVars>>

Nil == 0
ClassIds == 1..MaxClasses
ObjectIds == 1..MaxObjects
HeapIds == ClassIds \cup ObjectIds

\* A running method or block: its receiver, whether its caller made the
\* receiver the current self, and whether its caller holds METHOD_STORAGE.
Frames == [recv : HeapIds \cup {Nil}, setsSelf : BOOLEAN, locked : BOOLEAN]

DispTypeOK ==
  /\ supers \in Seq(HeapIds \cup {Nil}) /\ Len(supers) <= MaxClasses
  /\ singletons \in [HeapIds -> ClassIds \cup {Nil}]
  /\ objectClass \in ClassIds \cup {Nil}
  /\ instanceOf \in Seq(ClassIds \cup {Nil}) /\ Len(instanceOf) <= MaxObjects
  /\ methods \in SUBSET (HeapIds \X Names)
  /\ stack \in Seq(Frames) /\ Len(stack) <= MaxDepth
  /\ currentSelf \in HeapIds \cup {Nil}
  /\ stuck \in {"no", "lock", "loop"}

DispInit ==
  /\ supers = <<>>
  /\ singletons = [v \in HeapIds |-> Nil]
  /\ objectClass = Nil
  /\ instanceOf = <<>>
  /\ methods = {}
  /\ stack = <<>>
  /\ currentSelf = Nil
  /\ stuck = "no"

\* The VALUEs the program has been given.
Known == DOMAIN supers \cup DOMAIN instanceOf

IsClass(v) == v \in DOMAIN supers
Superclass(sup, c) == IF c \in DOMAIN sup THEN sup[c] ELSE Nil

Running == stuck = "no"

\* METHOD_STORAGE is write-locked by a caller further down the stack.
Held == \E i \in DOMAIN stack : stack[i].locked
StorageFree == Running /\ ~Held

-----------------------------------------------------------------------------
(* The class table *)

\* A fresh class id for a class below s
NewClass(s) ==
  /\ Len(supers) < MaxClasses
  /\ supers' = Append(supers, s)

\* jdruby_class_new, rb_define_class, jdruby_module_new
DefineClass ==
  /\ Running
  /\ \E s \in DOMAIN supers \cup {Nil} : NewClass(s)
  /\ objectClass' \in {objectClass, Len(supers')}
  /\ UNCHANGED <<singletons, instanceOf, methods, callStateVars>>

\* jdruby_cvar_set_dynamic stores a class variable as a class whose superclass
\* is the variable's value.
CvarSet(v) ==
  /\ Running
  /\ NewClass(v)
  /\ UNCHANGED <<singletons, objectClass, instanceOf, methods, callStateVars>>

\* Mutant: nobody looks whether there is one.
SingletonClassAnew(v) ==
  /\ NewClass(Superclass(supers, v))
  /\ singletons' = [singletons EXCEPT ![v] = Len(supers')]

\* ClassTable::singleton_class: one per VALUE, made when first asked for
SingletonClass(v) ==
  IF singletons[v] = Nil
    THEN /\ NewClass(Superclass(supers, v))
         /\ singletons' = [singletons EXCEPT ![v] = Len(supers')]
    ELSE UNCHANGED <<supers, singletons>>

\* jdruby_singleton_class_get
SingletonClassGet(v) ==
  /\ Running
  /\ SingletonClass(v)
  /\ UNCHANGED <<objectClass, instanceOf, methods, callStateVars>>

\* object_class(v): a class answers with its singleton class, which it may have
\* to make first
ObjectClass(v) ==
  IF IsClass(v) THEN singletons'[v]
  ELSE IF v \in DOMAIN instanceOf /\ instanceOf[v] # Nil THEN instanceOf[v]
  ELSE objectClass

ResolveClass(v) ==
  IF IsClass(v) THEN SingletonClass(v) ELSE UNCHANGED <<supers, singletons>>

\* Strings, arrays and floats take VALUEs from the same counter as objects.
NewString ==
  /\ Running
  /\ Len(instanceOf) < MaxObjects
  /\ instanceOf' = Append(instanceOf, Nil)
  /\ UNCHANGED <<tableVars, methods, callStateVars>>

-----------------------------------------------------------------------------
(* The method storage.  Every access locks METHOD_STORAGE for writing; a   *)
(* thread that already holds it waits for itself.                          *)

\* A call that needs METHOD_STORAGE while a caller holds it
WaitForStorage ==
  /\ Running
  /\ Held
  /\ stuck' = "lock"
  /\ UNCHANGED <<tableVars, instanceOf, methods, stack, currentSelf>>

\* jdruby_def_method, rb_define_method, jdruby_define_method_dynamic and the
\* define_method of jdruby_send_dynamic
DefineMethod(k, n) ==
  /\ StorageFree
  /\ methods' = methods \cup {<<k, n>>}
  /\ UNCHANGED <<tableVars, instanceOf, callStateVars>>

\* jdruby_undef_method, jdruby_remove_method
RemoveMethod(k, n) ==
  /\ StorageFree
  /\ methods' = methods \ {<<k, n>>}
  /\ UNCHANGED <<tableVars, instanceOf, callStateVars>>

\* jdruby_alias_method copies an entry of the class itself.
AliasMethod(k, new, old) ==
  /\ StorageFree
  /\ <<k, old>> \in methods
  /\ methods' = methods \cup {<<k, new>>}
  /\ UNCHANGED <<tableVars, instanceOf, callStateVars>>

\* jdruby_extend_module makes a class that nothing refers to.
ExtendModule ==
  /\ StorageFree
  /\ NewClass(Nil)
  /\ UNCHANGED <<singletons, objectClass, instanceOf, methods, callStateVars>>

\* The classes lookup passes from c on; a chain this long has passed one twice.
Chain(sup, c) ==
  LET at[i \in 0..(Len(sup) + 1)] == IF i = 0 THEN c ELSE Superclass(sup, at[i - 1])
  IN  at
Finds(sup, c, n) == \E i \in 0..Len(sup) : <<Chain(sup, c)[i], n>> \in methods
Circles(sup, c, n) == ~Finds(sup, c, n) /\ Chain(sup, c)[Len(sup) + 1] # Nil

\* dispatch_c_method: the compiled function runs.
Enter(v, setsSelf, locked) ==
  /\ Len(stack) < MaxDepth
  /\ stack' = Append(stack, [recv |-> v, setsSelf |-> setsSelf, locked |-> locked])
  /\ currentSelf' = IF setsSelf THEN v ELSE currentSelf
  /\ stuck' = stuck

\* MethodStorage::lookup from class c, then the call of what it found
LookupAndCall(c, v, n, setsSelf, locked) ==
  \/ Finds(supers', c, n) /\ Enter(v, setsSelf, locked)
  \/ Circles(supers', c, n) /\ stuck' = "loop" /\ UNCHANGED <<stack, currentSelf>>
  \/ ~Finds(supers', c, n) /\ ~Circles(supers', c, n) /\ UNCHANGED callStateVars

\* jdruby_send, rb_funcallv: the receiver itself is looked up as a class, and
\* does not become the current self.
Send(v, n) ==
  /\ StorageFree
  /\ UNCHANGED <<tableVars, instanceOf, methods>>
  /\ LookupAndCall(v, v, n, FALSE, FALSE)

\* The receiver of jdruby_send_dynamic: nil stands for jdruby_current_self().
Effective(v) ==
  IF v # Nil THEN v ELSE IF currentSelf # Nil THEN currentSelf ELSE objectClass

\* jdruby_send_dynamic: the lock is held for the lookup alone.
SendDynamic(v, n) ==
  LET recv == Effective(v)
  IN  /\ StorageFree
      /\ recv # Nil
      /\ ResolveClass(recv)
      /\ LookupAndCall(ObjectClass(recv), recv, n, TRUE, FALSE)
      /\ UNCHANGED <<objectClass, instanceOf, methods>>

\* MethodStorage::dispatch inside with_method_storage: jdruby_public_send,
\* jdruby_method_object_call, jdruby_method_missing and the yield of a block
\* made from a symbol.  The guard of METHOD_STORAGE is the closure's caller's,
\* so drop(self) releases nothing.
PublicSend(v, n) ==
  /\ StorageFree
  /\ ResolveClass(v)
  /\ LookupAndCall(ObjectClass(v), v, n, TRUE, TRUE)
  /\ UNCHANGED <<objectClass, instanceOf, methods>>

\* jdruby_respond_to
RespondTo(v, n) ==
  /\ StorageFree
  /\ ResolveClass(v)
  /\ stuck' = IF Circles(supers', ObjectClass(v), n) THEN "loop" ELSE stuck
  /\ UNCHANGED <<objectClass, instanceOf, methods, stack, currentSelf>>

\* jdruby_send_dynamic(k, :new): the object, then its initialize under the lock
New(k) ==
  LET o == Len(instanceOf) + 1
  IN  /\ Running
      /\ Len(instanceOf) < MaxObjects
      /\ instanceOf' = Append(instanceOf, k)
      /\ \/ /\ Held
            /\ stuck' = "lock"
            /\ UNCHANGED <<supers, singletons, stack, currentSelf>>
         \/ /\ ~Held
            /\ ResolveClass(o)
            /\ LookupAndCall(IF IsClass(o) THEN singletons'[o] ELSE k, o, "initialize", TRUE, TRUE)
      /\ UNCHANGED <<objectClass, methods>>

\* jdruby_block_yield of a compiled block
Yield ==
  /\ Running
  /\ Enter(Nil, FALSE, FALSE)
  /\ UNCHANGED <<tableVars, instanceOf, methods>>

\* Mutant: the self of the outermost method is kept.
ReturnKeepsSelf ==
  /\ Running
  /\ stack # <<>>
  /\ stack' = SubSeq(stack, 1, Len(stack) - 1)
  /\ currentSelf' = IF Len(stack) = 1 THEN Nil ELSE currentSelf
  /\ UNCHANGED <<tableVars, instanceOf, methods, stuck>>

\* The function returns; a dispatch that set the self clears it.
Return ==
  /\ Running
  /\ stack # <<>>
  /\ stack' = SubSeq(stack, 1, Len(stack) - 1)
  /\ currentSelf' = IF stack[Len(stack)].setsSelf THEN Nil ELSE currentSelf
  /\ UNCHANGED <<tableVars, instanceOf, methods, stuck>>

-----------------------------------------------------------------------------
DispNext ==
  \/ DefineClass \/ ExtendModule \/ NewString \/ WaitForStorage \/ Yield \/ Return
  \/ \E v \in Known : CvarSet(v) \/ SingletonClassGet(v)
  \/ \E k \in DOMAIN supers : New(k)
  \/ \E v \in Known, n \in Names :
       \/ DefineMethod(v, n) \/ RemoveMethod(v, n)
       \/ Send(v, n) \/ PublicSend(v, n) \/ RespondTo(v, n)
       \/ \E old \in Names : AliasMethod(v, n, old)
  \/ \E v \in Known \cup {Nil}, n \in Names : SendDynamic(v, n)

DispSpec == DispInit /\ [][DispNext]_dispVars

-----------------------------------------------------------------------------
(* Properties *)

\* Whatever is nested in whatever, jdruby_current_self never answers with a
\* receiver other than that of the innermost method that was dispatched with
\* one: a block or a C method called in between sees its caller's self or the
\* main object, never the self of a method that has returned.
NoForeignSelf ==
  currentSelf # Nil =>
    \E i \in DOMAIN stack :
      /\ stack[i].setsSelf /\ stack[i].recv = currentSelf
      /\ \A j \in DOMAIN stack : j > i => ~stack[j].setsSelf

\* The singleton class of a class is made once, whichever of the many lookups
\* asks for it first, and no two VALUEs share one: class methods stay where
\* they were defined.
SingletonsKept ==
  [][\A v \in HeapIds :
       singletons'[v] # singletons[v] =>
         /\ singletons[v] = Nil
         /\ \A w \in HeapIds : singletons[w] # singletons'[v]]_dispVars

\* method_storage.rs, dispatch: "releases lock before calling to avoid
\* reentrancy deadlock".
NoReentrancyDeadlock == stuck # "lock"

\* An object made by `new` is looked up in the class it was made with:
\* method_storage.rs, object_class: "Get the class of an object (instance)."
ClassOfInstance ==
  \A o \in DOMAIN instanceOf :
    instanceOf[o] # Nil /\ IsClass(o) /\ singletons[o] # Nil => singletons[o] = instanceOf[o]
=============================================================================
