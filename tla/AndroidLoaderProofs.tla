-------------------------- MODULE AndroidLoaderProofs --------------------------
(***************************************************************************)
(* Proofs about AndroidLoader, for every number of goroutines, threads and *)
(* chunks of memory: the state keeps its types, a call reports its own     *)
(* failure and nobody else's, and every text is freed once.                *)
(***************************************************************************)
EXTENDS AndroidLoader, TLAPS

\* No two goroutines are in C on one thread.
Apart == \A g, h \in Goroutines : thread[g] # None /\ thread[g] = thread[h] => g = h

\* What holds of the call of g at each place: its own text, or none, is pending
\* on its thread, then in the chunk it has, then in its report.
CallOK(g) ==
  /\ pc[g] \in {"go", "ready", "clear", "lookup", "ctor", "failed", "reported"} => error[g] = None
  /\ pc[g] = "go" => name[g] = None
  /\ pc[g] \in {"ready", "clear", "lookup", "ctor", "failed"} => found[g] = FALSE
  /\ pc[g] = "lookup" /\ call[g] = "dlsym" => dlerr[thread[g]] = NoError
  /\ pc[g] = "failed" => \/ outcome[g] = "failed" /\ dlerr[thread[g]] = Me(g)
                         \/ outcome[g] = "null" /\ dlerr[thread[g]] = NoError
  /\ pc[g] = "returned" =>
       \/ outcome[g] = "found" /\ found[g] = ~moved[g] /\ error[g] = None
       \/ outcome[g] = "failed" /\ found[g] = FALSE /\ error[g] # None /\ heap[error[g]] = Me(g)
       \/ outcome[g] \in {"null", "unexplained"} /\ found[g] = FALSE /\ error[g] = None
  /\ pc[g] = "take" => outcome[g] = "failed" /\ error[g] # None /\ heap[error[g]] = Me(g)
  /\ pc[g] = "copied" => outcome[g] = "failed" /\ error[g] # None /\ report[g] = Me(g)
  /\ pc[g] = "reported" =>
       /\ outcome[g] = "found" => report[g] = IF moved[g] THEN Unknown ELSE NoError
       /\ outcome[g] = "failed" => report[g] = Me(g)
       /\ outcome[g] \in {"null", "unexplained"} => report[g] = Unknown
Calls == \A g \in Goroutines : CallOK(g)

IInv == TypeOK /\ Apart /\ Calls /\ ChunksHaveOwners

\* A step that changes, of the goroutines, only g.
OnlyOf(g) ==
  \A h \in Goroutines \ {g} :
    /\ pc'[h] = pc[h] /\ call'[h] = call[h] /\ turn'[h] = turn[h] /\ thread'[h] = thread[h]
    /\ moved'[h] = moved[h] /\ name'[h] = name[h] /\ found'[h] = found[h]
    /\ error'[h] = error[h] /\ report'[h] = report[h] /\ outcome'[h] = outcome[h]
--------------------------------------------------------------------------------
\* A goroutine's text is neither another's nor the absence of one.
LEMMA TextOfCall ==
  ASSUME IInv, NEW g \in Goroutines
  PROVE  Me(g) \in Texts /\ Me(g) # NoError
  <1>1. turn[g] \in {0, 1}  BY DEF IInv, TypeOK
  <1>2. g # "none"  BY GoroutinesAssumption
  <1> QED  BY <1>1, <1>2 DEF Me, Texts, NoError

\* A goroutine that is in C has a thread.
LEMMA InCHasThread ==
  ASSUME IInv, NEW g \in Goroutines, pc[g] \in InC
  PROVE  thread[g] \in Threads /\ thread[g] # None
  BY DEF IInv, TypeOK

\* The other goroutines keep what holds of their calls, if the texts on their
\* threads and in their chunks stay.
LEMMA OthersKeep ==
  ASSUME IInv, NEW g, NEW h \in Goroutines \ {g}, OnlyOf(g),
         thread[h] # None => dlerr'[thread[h]] = dlerr[thread[h]],
         error[h] # None => heap'[error[h]] = heap[error[h]]
  PROVE  CallOK(h)'
  <1>1. CallOK(h)  BY DEF IInv, Calls
  <1>2. pc[h] \in {"lookup", "failed"} => thread[h] # None
    BY DEF IInv, TypeOK, InC
  <1>3. Me(h)' = Me(h)  BY DEF Me, OnlyOf
  <1> QED  BY <1>1, <1>2, <1>3 DEF CallOK, OnlyOf

\* A step of g in which its thread, its chunks and the heap stay.
LEMMA ApartKept ==
  ASSUME IInv, UNCHANGED thread
  PROVE  Apart'
  BY DEF IInv, Apart
LEMMA OwnersKept ==
  ASSUME IInv, UNCHANGED <<name, error, heap>>
  PROVE  ChunksHaveOwners'
  BY DEF IInv, ChunksHaveOwners

\* A step of g that touches neither the heap nor pending texts.
LEMMA QuietStep ==
  ASSUME IInv, NEW g \in Goroutines, OnlyOf(g), UNCHANGED <<name, error, heap, dlerr>>,
         TypeOK', Apart', CallOK(g)'
  PROVE  IInv'
  <1>1. \A h \in Goroutines \ {g} : CallOK(h)'  BY OthersKeep
  <1>2. Calls'  BY <1>1 DEF Calls
  <1> QED  BY <1>2, OwnersKept DEF IInv
--------------------------------------------------------------------------------
(* The actions.                                                             *)

\* Dlopen and Dlsym: the argument gets a chunk nobody has.
LEMMA PrepareStep ==
  ASSUME IInv, NEW g \in Goroutines, NEW c \in {"dlopen", "dlsym"}, Prepare(g, c)
  PROVE  IInv'
  <1>1. TypeOK'
    BY DEF Prepare, IInv, TypeOK, Places, InC, Texts, Name
  <1>2. OnlyOf(g)  BY DEF Prepare, IInv, TypeOK, OnlyOf
  <1>3. CallOK(g) /\ name[g] = None /\ error[g] = None
    BY DEF Prepare, IInv, Calls, CallOK
  <1>4. ChunksHaveOwners'
    <2>1. CASE cgo
      <3>1. PICK n \in Chunks : /\ heap[n] = Free /\ heap' = [heap EXCEPT ![n] = Name]
                                /\ name' = [name EXCEPT ![g] = n]
        BY <2>1 DEF Prepare
      <3>2. /\ \A h \in Goroutines : n # name[h] /\ n # error[h]
            /\ Name # Free
        BY <3>1 DEF IInv, ChunksHaveOwners, Name, Free
      <3>3. error' = error  BY <1>3 DEF Prepare, IInv, TypeOK
      <3> QED  BY <1>3, <3>1, <3>2, <3>3, NoneAssumption DEF IInv, TypeOK, ChunksHaveOwners
    <2>2. CASE ~cgo
      <3>1. error' = error /\ UNCHANGED <<heap, name>>
        BY <1>3, <2>2 DEF Prepare, IInv, TypeOK
      <3> QED  BY <3>1, OwnersKept
    <2> QED  BY <2>1, <2>2
  <1>5. ASSUME NEW h \in Goroutines \ {g} PROVE CallOK(h)'
    <2>1. error[h] # None => heap[error[h]] # Free
      BY DEF IInv, TypeOK, ChunksHaveOwners
    <2>2. error[h] # None => heap'[error[h]] = heap[error[h]]
      BY <2>1 DEF Prepare, IInv, TypeOK
    <2> QED  BY <1>2, <2>2, OthersKeep DEF Prepare
  <1>6. CallOK(g)'  BY DEF Prepare, IInv, TypeOK, CallOK
  <1>7. Apart'  BY ApartKept DEF Prepare
  <1> QED  BY <1>1, <1>4, <1>5, <1>6, <1>7 DEF IInv, Calls

\* runtime.cgocall: on a thread of its own.
LEMMA CgocallStep ==
  ASSUME IInv, NEW g \in Goroutines, NEW m \in Threads, Cgocall(g, m)
  PROVE  IInv'
  <1>1. TypeOK'  BY NoneAssumption DEF Cgocall, IInv, TypeOK, Places, InC
  <1>2. OnlyOf(g)  BY DEF Cgocall, IInv, TypeOK, OnlyOf
  <1>3. Apart'  BY DEF Cgocall, Idle, IInv, TypeOK, Apart
  <1>4. CallOK(g)'  BY DEF Cgocall, IInv, TypeOK, Calls, CallOK
  <1> QED  BY <1>1, <1>2, <1>3, <1>4, QuietStep DEF Cgocall

\* A step of g in C that changes the pending text of its own thread.
LEMMA OwnTextStep ==
  ASSUME IInv, NEW g \in Goroutines, pc[g] \in InC, OnlyOf(g), NEW x,
         dlerr' = [dlerr EXCEPT ![thread[g]] = x],
         UNCHANGED <<thread, name, error, heap>>, TypeOK', CallOK(g)'
  PROVE  IInv'
  <1>1. ASSUME NEW h \in Goroutines \ {g} PROVE CallOK(h)'
    <2>1. thread[h] # None => thread[h] # thread[g]  BY DEF IInv, Apart
    <2>2. thread[h] # None => dlerr'[thread[h]] = dlerr[thread[h]]
      BY <2>1 DEF IInv, TypeOK
    <2> QED  BY <2>2, OthersKeep
  <1>2. Calls'  BY <1>1 DEF Calls
  <1> QED  BY <1>2, ApartKept, OwnersKept DEF IInv

\* The dlerror before dlsym: nothing is pending on the thread.
LEMMA ClearStep ==
  ASSUME IInv, NEW g \in Goroutines, Clear(g)
  PROVE  IInv'
  <1>1. thread[g] \in Threads /\ pc[g] \in InC
    BY InCHasThread DEF Clear, InC
  <1>2. dlerr' = [dlerr EXCEPT ![thread[g]] = NoError]  BY DEF Clear, AfterClear
  <1>3. TypeOK'  BY <1>1, <1>2 DEF Clear, IInv, TypeOK, Places, InC
  <1>4. OnlyOf(g)  BY DEF Clear, IInv, TypeOK, OnlyOf
  <1>5. CallOK(g)'  BY <1>1, <1>2 DEF Clear, IInv, TypeOK, Calls, CallOK
  <1> QED  BY <1>1, <1>2, <1>3, <1>4, <1>5, OwnTextStep DEF Clear

\* dlopen or dlsym fails: its own text is pending on the thread.
LEMMA LibcFailsStep ==
  ASSUME IInv, NEW g \in Goroutines, LibcFails(g)
  PROVE  IInv'
  <1>1. thread[g] \in Threads /\ pc[g] \in InC
    BY InCHasThread DEF LibcFails, InC
  <1>2. Me(g) \in Texts /\ Me(g)' = Me(g)  BY TextOfCall DEF LibcFails, Me
  <1>3. TypeOK'  BY <1>1, <1>2 DEF LibcFails, IInv, TypeOK, Places, InC
  <1>4. OnlyOf(g)  BY DEF LibcFails, IInv, TypeOK, OnlyOf
  <1>5. CallOK(g)'  BY <1>1, <1>2 DEF LibcFails, IInv, TypeOK, Calls, CallOK
  <1> QED  BY <1>1, <1>3, <1>4, <1>5, OwnTextStep DEF LibcFails

\* A symbol that is NULL: nothing is pending, dlsym was preceded by dlerror.
LEMMA SymbolIsNullStep ==
  ASSUME IInv, NEW g \in Goroutines, SymbolIsNull(g)
  PROVE  IInv'
  <1>1. TypeOK'  BY DEF SymbolIsNull, IInv, TypeOK, Places, InC
  <1>2. OnlyOf(g)  BY DEF SymbolIsNull, IInv, TypeOK, OnlyOf
  <1>3. CallOK(g)'  BY DEF SymbolIsNull, IInv, TypeOK, Calls, CallOK
  <1>4. Apart'  BY ApartKept DEF SymbolIsNull
  <1> QED  BY <1>1, <1>2, <1>3, <1>4, QuietStep DEF SymbolIsNull

\* The constructors of a library that was found.
LEMMA ConstructStep ==
  ASSUME IInv, NEW g \in Goroutines, Construct(g)
  PROVE  IInv'
  <1>1. TypeOK'  BY DEF Construct, IInv, TypeOK, Places, InC
  <1>2. OnlyOf(g)  BY DEF Construct, IInv, TypeOK, OnlyOf
  <1>3. CallOK(g)'  BY DEF Construct, IInv, TypeOK, Calls, CallOK
  <1>4. Apart'  BY ApartKept DEF Construct
  <1> QED  BY <1>1, <1>2, <1>3, <1>4, QuietStep DEF Construct

\* The stack moves.
LEMMA GrowStackStep ==
  ASSUME IInv, NEW g \in Goroutines, GrowStack(g)
  PROVE  IInv'
  <1>1. TypeOK'  BY DEF GrowStack, IInv, TypeOK
  <1>2. OnlyOf(g)  BY DEF GrowStack, IInv, TypeOK, OnlyOf
  <1>3. CallOK(g)'  BY DEF GrowStack, IInv, TypeOK, Calls, CallOK
  <1>4. Apart'  BY ApartKept DEF GrowStack
  <1> QED  BY <1>1, <1>2, <1>3, <1>4, QuietStep DEF GrowStack

\* A goroutine that leaves C keeps the others apart.
LEMMA LeaveApart ==
  ASSUME IInv, NEW g \in Goroutines, Leave(g)
  PROVE  Apart'
  BY DEF Leave, IInv, TypeOK, Apart

\* A handle or an address is stored where args was.
LEMMA LibcSucceedsStep ==
  ASSUME IInv, NEW g \in Goroutines, LibcSucceeds(g)
  PROVE  IInv'
  <1>1. pc[g] \in InC  BY DEF LibcSucceeds, InC
  <1>2. TypeOK'  BY <1>1 DEF LibcSucceeds, Leave, IInv, TypeOK, Places, InC
  <1>3. OnlyOf(g)  BY DEF LibcSucceeds, Leave, IInv, TypeOK, OnlyOf
  <1>4. CallOK(g)'
    <2>1. error[g] = None  BY DEF LibcSucceeds, IInv, Calls, CallOK
    <2> QED  BY <2>1 DEF LibcSucceeds, Leave, IInv, TypeOK, CallOK
  <1>5. Apart'  BY LeaveApart DEF LibcSucceeds
  <1> QED  BY <1>2, <1>3, <1>4, <1>5, QuietStep DEF LibcSucceeds

\* dlerror and strdup: the pending text goes into a chunk nobody has.
LEMMA ExplainStep ==
  ASSUME IInv, NEW g \in Goroutines, Explain(g)
  PROVE  IInv'
  <1>1. thread[g] \in Threads /\ pc[g] \in InC
    BY InCHasThread DEF Explain, InC
  <1>2. PICK m \in Threads : m = thread[g]  BY <1>1
  <1>3. /\ dlerr' = [dlerr EXCEPT ![m] = NoError]
        /\ IF dlerr[m] = NoError THEN UNCHANGED <<heap, error, outcome>>
           ELSE \/ \E c \in Chunks : /\ heap[c] = Free
                                     /\ heap' = [heap EXCEPT ![c] = dlerr[m]]
                                     /\ error' = [error EXCEPT ![g] = c]
                                     /\ UNCHANGED outcome
                \/ /\ outcome' = [outcome EXCEPT ![g] = "unexplained"]
                   /\ UNCHANGED <<heap, error>>
    BY <1>2 DEF Explain
  <1>4. /\ error[g] = None /\ found[g] = FALSE
        /\ \/ outcome[g] = "failed" /\ dlerr[m] = Me(g)
           \/ outcome[g] = "null" /\ dlerr[m] = NoError
    BY <1>2 DEF Explain, IInv, Calls, CallOK
  <1>5. dlerr[m] \in Texts \cup {NoError}  BY DEF IInv, TypeOK
  <1>6. Me(g) \in Texts /\ Me(g) # NoError /\ Me(g)' = Me(g)
    BY TextOfCall DEF Explain, Me
  <1>7. OnlyOf(g)
    BY <1>3 DEF Explain, Leave, IInv, TypeOK, OnlyOf
  <1>8. TypeOK'
    <2>1. heap' \in [Chunks -> Texts \cup {Free, Name}] /\ error' \in [Goroutines -> Chunks \cup {None}]
          /\ outcome' \in [Goroutines -> {"none", "found", "null", "failed", "unexplained"}]
      BY <1>3, <1>5 DEF IInv, TypeOK
    <2>2. dlerr' \in [Threads -> Texts \cup {NoError}]  BY <1>3 DEF IInv, TypeOK
    <2> QED  BY <1>1, <2>1, <2>2 DEF Explain, Leave, IInv, TypeOK, Places, InC
  <1>9. ChunksHaveOwners'
    <2>1. CASE heap' = heap /\ error' = error
      BY <2>1, OwnersKept DEF Explain
    <2>2. CASE ~(heap' = heap /\ error' = error)
      <3>1. PICK c \in Chunks : /\ heap[c] = Free /\ dlerr[m] = Me(g)
                                /\ heap' = [heap EXCEPT ![c] = Me(g)]
                                /\ error' = [error EXCEPT ![g] = c]
        BY <1>3, <1>4, <2>2
      <3>2. \A h \in Goroutines : c # name[h] /\ c # error[h]
        BY <3>1 DEF IInv, ChunksHaveOwners
      <3>3. Me(g) # Free
        <4>1. turn[g] \in {0, 1} /\ g # "free"  BY GoroutinesAssumption DEF IInv, TypeOK
        <4> QED  BY <4>1 DEF Me, Free
      <3>4. name' = name  BY DEF Explain
      <3> QED  BY <1>4, <3>1, <3>2, <3>3, <3>4, NoneAssumption DEF IInv, TypeOK, ChunksHaveOwners
    <2> QED  BY <2>1, <2>2
  <1>10. ASSUME NEW h \in Goroutines \ {g} PROVE CallOK(h)'
    <2>1. error[h] # None => heap[error[h]] # Free
      BY DEF IInv, TypeOK, ChunksHaveOwners
    <2>2. error[h] # None => heap'[error[h]] = heap[error[h]]
      BY <1>3, <2>1 DEF IInv, TypeOK
    <2>3. thread[h] # None => thread[h] # m  BY <1>2 DEF IInv, Apart
    <2>4. thread[h] # None => dlerr'[thread[h]] = dlerr[thread[h]]
      BY <1>3, <2>3 DEF IInv, TypeOK
    <2> QED  BY <1>7, <2>2, <2>4, OthersKeep
  <1>11. CallOK(g)'
    <2>1. pc'[g] = "returned"  BY DEF Explain, Leave, IInv, TypeOK
    <2>2. \/ outcome'[g] = "failed" /\ error'[g] # None /\ heap'[error'[g]] = Me(g)
          \/ outcome'[g] \in {"null", "unexplained"} /\ error'[g] = None
      BY <1>3, <1>4, <1>6, NoneAssumption DEF IInv, TypeOK
    <2>3. found'[g] = FALSE  BY <1>4 DEF Explain
    <2> QED  BY <1>6, <2>1, <2>2, <2>3 DEF CallOK
  <1>12. Apart'  BY LeaveApart DEF Explain
  <1> QED  BY <1>8, <1>9, <1>10, <1>11, <1>12 DEF IInv, Calls

\* Other C code leaves a text on a thread none of the calls depends on.
LEMMA OthersFailStep ==
  ASSUME IInv, NEW m \in Threads, OthersFail(m)
  PROVE  IInv'
  <1>1. UNCHANGED <<cgo, pc, call, turn, thread, moved, name, found, error, report, outcome, heap>>
    BY DEF OthersFail, callVars
  <1>2. dlerr' = [dlerr EXCEPT ![m] = <<"other", 0>>]  BY DEF OthersFail
  <1>3. <<"other", 0>> \in Texts  BY DEF Texts
  <1>4. TypeOK'  BY <1>1, <1>2, <1>3 DEF IInv, TypeOK
  <1>5. ASSUME NEW h \in Goroutines PROVE CallOK(h)'
    <2>1. pc[h] \in {"lookup", "failed"} => thread[h] # m
      BY DEF OthersFail
    <2>2. pc[h] \in {"lookup", "failed"} => dlerr'[thread[h]] = dlerr[thread[h]]
      BY <1>2, <2>1 DEF IInv, TypeOK, InC
    <2>3. CallOK(h)  BY DEF IInv, Calls
    <2>4. Me(h)' = Me(h)  BY <1>1 DEF Me
    <2> QED  BY <1>1, <2>2, <2>3, <2>4 DEF CallOK
  <1> QED  BY <1>1, <1>4, <1>5, ApartKept, OwnersKept DEF IInv, Calls

\* What the caller is told if there is no text to copy.
LEMMA CheckStep ==
  ASSUME IInv, NEW g \in Goroutines, Check(g)
  PROVE  IInv'
  <1>1. TypeOK'
    BY DEF Check, IInv, TypeOK, Places, InC, NoError, Unknown
  <1>2. OnlyOf(g)  BY DEF Check, IInv, TypeOK, OnlyOf
  <1>3. CallOK(g)'
    <2>1. \/ outcome[g] = "found" /\ found[g] = ~moved[g] /\ error[g] = None
          \/ outcome[g] = "failed" /\ found[g] = FALSE /\ error[g] # None /\ heap[error[g]] = Me(g)
          \/ outcome[g] \in {"null", "unexplained"} /\ found[g] = FALSE /\ error[g] = None
      BY DEF Check, IInv, Calls, CallOK
    <2>2. Me(g)' = Me(g)  BY DEF Check, Me
    <2>3. CASE ~found[g] /\ error[g] # None
      <3>1. pc'[g] = "take" /\ outcome[g] = "failed"
        BY <2>1, <2>3 DEF Check, IInv, TypeOK
      <3> QED  BY <2>1, <2>2, <2>3, <3>1 DEF Check, CallOK
    <2>4. CASE found[g] \/ error[g] = None
      <3>1. pc'[g] = "reported" /\ report'[g] = IF found[g] THEN NoError ELSE Unknown
        BY <2>4 DEF Check, IInv, TypeOK
      <3>2. UNCHANGED <<error, outcome, moved>>  BY DEF Check
      <3>3. error[g] = None /\ outcome[g] # "failed"  BY <2>1, <2>4
      <3>4. outcome[g] = "found" => found[g] = ~moved[g]  BY <2>1
      <3>5. outcome[g] \in {"null", "unexplained"} => ~found[g]  BY <2>1
      <3>6. found[g] \in BOOLEAN /\ moved[g] \in BOOLEAN  BY DEF IInv, TypeOK
      <3> QED  BY <3>1, <3>2, <3>3, <3>4, <3>5, <3>6 DEF CallOK
    <2> QED  BY <2>3, <2>4
  <1>4. Apart'  BY ApartKept DEF Check
  <1> QED  BY <1>1, <1>2, <1>3, <1>4, QuietStep DEF Check

\* The text is copied while nobody else can have its chunk.
LEMMA CopyStep ==
  ASSUME IInv, NEW g \in Goroutines, Copy(g)
  PROVE  IInv'
  <1>1. outcome[g] = "failed" /\ error[g] # None /\ heap[error[g]] = Me(g)
    BY DEF Copy, IInv, Calls, CallOK
  <1>2. TypeOK'
    BY <1>1, TextOfCall DEF Copy, IInv, TypeOK, Places, InC
  <1>3. OnlyOf(g)  BY DEF Copy, IInv, TypeOK, OnlyOf
  <1>4. CallOK(g)'  BY <1>1 DEF Copy, IInv, TypeOK, CallOK, Me
  <1>5. Apart'  BY ApartKept DEF Copy
  <1> QED  BY <1>2, <1>3, <1>4, <1>5, QuietStep DEF Copy

\* A step of g that frees chunks only g has.
LEMMA FreeingStep ==
  ASSUME IInv, NEW g \in Goroutines, OnlyOf(g), UNCHANGED <<thread, dlerr>>,
         \A c \in Chunks : heap'[c] = heap[c] \/ c = error[g] \/ c = name[g],
         TypeOK', CallOK(g)', ChunksHaveOwners'
  PROVE  IInv'
  <1>1. ASSUME NEW h \in Goroutines \ {g} PROVE CallOK(h)'
    <2>1. error[h] \in Chunks => error[h] # error[g] /\ error[h] # name[g]
      BY DEF IInv, ChunksHaveOwners
    <2>2. error[h] # None => error[h] \in Chunks  BY DEF IInv, TypeOK
    <2>3. error[h] # None => heap'[error[h]] = heap[error[h]]  BY <2>1, <2>2
    <2> QED  BY <2>3, OthersKeep
  <1> QED  BY <1>1, ApartKept DEF IInv, Calls

\* The text is freed: it was the only one g had.
LEMMA FreeTextStep ==
  ASSUME IInv, NEW g \in Goroutines, FreeText(g)
  PROVE  IInv'
  <1>1. outcome[g] = "failed" /\ error[g] # None /\ report[g] = Me(g)
    BY DEF FreeText, IInv, Calls, CallOK
  <1>2. PICK c \in Chunks : c = error[g]  BY <1>1 DEF IInv, TypeOK
  <1>3. heap' = [heap EXCEPT ![c] = Free] /\ error' = [error EXCEPT ![g] = None] /\ name' = name
    BY <1>2 DEF FreeText
  <1>4. TypeOK'  BY <1>3 DEF FreeText, IInv, TypeOK, Places, InC
  <1>5. OnlyOf(g)  BY DEF FreeText, IInv, TypeOK, OnlyOf
  <1>6. CallOK(g)'  BY <1>1 DEF FreeText, IInv, TypeOK, CallOK, Me
  <1>7. ChunksHaveOwners'
    BY <1>2, <1>3, NoneAssumption DEF IInv, TypeOK, ChunksHaveOwners
  <1>8. \A x \in Chunks : heap'[x] = heap[x] \/ x = error[g]
    BY <1>2, <1>3 DEF IInv, TypeOK
  <1> QED  BY <1>4, <1>5, <1>6, <1>7, <1>8, FreeingStep DEF FreeText

\* The deferred free of the argument.
LEMMA ReturnStep ==
  ASSUME IInv, NEW g \in Goroutines, Return(g)
  PROVE  IInv'
  <1>1. error[g] = None  BY DEF Return, IInv, Calls, CallOK
  <1>2. /\ heap' = [n \in Chunks |-> IF n = name[g] THEN Free ELSE heap[n]]
        /\ name' = [name EXCEPT ![g] = None] /\ error' = error
    BY DEF Return
  <1>3. TypeOK'  BY <1>2 DEF Return, IInv, TypeOK, Places, InC
  <1>4. OnlyOf(g)  BY DEF Return, IInv, TypeOK, OnlyOf
  <1>5. CallOK(g)'  BY <1>1 DEF Return, IInv, TypeOK, CallOK
  <1>6. ChunksHaveOwners'
    <2> SUFFICES ASSUME NEW c \in Chunks
                 PROVE  /\ heap'[c] # Free <=> \E h \in Goroutines : c \in {name'[h], error'[h]}
                        /\ \A h, k \in Goroutines :
                             c \in {name'[h], error'[h]} /\ c \in {name'[k], error'[k]} => h = k
                        /\ \A h \in Goroutines : ~(name'[h] = c /\ error'[h] = c)
      BY DEF ChunksHaveOwners
    <2>0. /\ heap[c] # Free <=> \E h \in Goroutines : c \in {name[h], error[h]}
          /\ \A h, k \in Goroutines :
               c \in {name[h], error[h]} /\ c \in {name[k], error[k]} => h = k
          /\ \A h \in Goroutines : ~(name[h] = c /\ error[h] = c)
      BY DEF IInv, ChunksHaveOwners
    <2>1. \A h \in Goroutines : name'[h] = IF h = g THEN None ELSE name[h]
      BY <1>2 DEF IInv, TypeOK
    <2>2. c # None  BY NoneAssumption
    <2>3. CASE c = name[g]  BY <1>1, <1>2, <2>0, <2>1, <2>2, <2>3
    <2>4. CASE c # name[g]
      <3>1. heap'[c] = heap[c]  BY <1>2, <2>4
      <3>2. \A h \in Goroutines : c \in {name'[h], error'[h]} <=> c \in {name[h], error[h]}
        BY <1>2, <2>1, <2>2, <2>4
      <3>3. \A h \in Goroutines : ~(name'[h] = c /\ error'[h] = c)
        BY <1>2, <2>0, <2>1, <2>2
      <3> QED  BY <2>0, <3>1, <3>2, <3>3
    <2> QED  BY <2>3, <2>4
  <1>7. \A c \in Chunks : heap'[c] = heap[c] \/ c = name[g]
    BY <1>2
  <1> QED  BY <1>3, <1>4, <1>5, <1>6, <1>7, FreeingStep DEF Return

\* Nobody has called anything.
LEMMA InitEstablishes == Init => IInv
  <1> SUFFICES ASSUME Init PROVE IInv  OBVIOUS
  <1>1. TypeOK  BY DEF Init, TypeOK, Places, InC
  <1>2. Apart  BY DEF Init, Apart
  <1>3. Calls  BY DEF Init, Calls, CallOK
  <1>4. ChunksHaveOwners  BY NoneAssumption DEF Init, ChunksHaveOwners
  <1> QED  BY <1>1, <1>2, <1>3, <1>4 DEF IInv

\* A step that changes nothing.
LEMMA StutterStep ==
  ASSUME IInv, UNCHANGED vars
  PROVE  IInv'
  BY DEF vars, callVars, IInv, TypeOK, Apart, Calls, CallOK, Me, ChunksHaveOwners
--------------------------------------------------------------------------------
\* The invariant of the proofs, for AndroidLoader as a whole.
THEOREM Invariance == Spec => []IInv
  <1>1. IInv /\ [Next]_vars => IInv'
    <2> SUFFICES ASSUME IInv, [Next]_vars PROVE IInv'  OBVIOUS
    <2>1. CASE UNCHANGED vars  BY <2>1, StutterStep
    <2>2. ASSUME NEW g \in Goroutines, Go(g)
          PROVE  IInv'
      <3>1. CASE Dlopen(g) \/ Dlsym(g)  BY <3>1, PrepareStep DEF Dlopen, Dlsym
      <3>2. CASE Check(g) \/ Copy(g)  BY <3>2, CheckStep, CopyStep
      <3>3. CASE FreeText(g) \/ Return(g)  BY <3>3, FreeTextStep, ReturnStep
      <3> QED  BY <2>2, <3>1, <3>2, <3>3 DEF Go
    <2>3. ASSUME NEW g \in Goroutines, Libc(g)
          PROVE  IInv'
      <3>1. CASE Clear(g) \/ LibcFails(g) \/ SymbolIsNull(g)
        BY <3>1, ClearStep, LibcFailsStep, SymbolIsNullStep
      <3>2. CASE Construct(g) \/ GrowStack(g) \/ LibcSucceeds(g)
        BY <3>2, ConstructStep, GrowStackStep, LibcSucceedsStep
      <3>3. CASE Explain(g)  BY <3>3, ExplainStep
      <3> QED  BY <2>3, <3>1, <3>2, <3>3 DEF Libc
    <2>4. ASSUME NEW g \in Goroutines, NEW m \in Threads, Cgocall(g, m)
          PROVE  IInv'
      BY <2>4, CgocallStep
    <2>5. ASSUME NEW m \in Threads, OthersFail(m)
          PROVE  IInv'
      BY <2>5, OthersFailStep
    <2> QED  BY <2>1, <2>2, <2>3, <2>4, <2>5 DEF Next
  <1> QED  BY <1>1, InitEstablishes, PTL DEF Spec

\* Calls, threads, chunks and pending texts keep their types, and a goroutine has
\* a thread exactly while it is in the wrapper (dl_android_nocgo_arm64.s).
THEOREM TypeCorrect == Spec => []TypeOK
  <1>1. IInv => TypeOK  BY DEF IInv
  <1> QED  BY <1>1, Invariance, PTL

\* Dlopen and Dlsym report the text of their own failure and no other.
THEOREM OwnReport == Spec => []ReportIsTrue
  <1>1. IInv => ReportIsTrue  BY DEF IInv, Calls, CallOK, ReportIsTrue
  <1> QED  BY <1>1, Invariance, PTL

\* Every chunk from strdup and C.CString has one owner until it is freed.
THEOREM OneOwner == Spec => []ChunksHaveOwners
  <1>1. IInv => ChunksHaveOwners  BY DEF IInv
  <1> QED  BY <1>1, Invariance, PTL
================================================================================
