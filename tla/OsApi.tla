-------------------------------- MODULE OsApi --------------------------------
(***************************************************************************)
(* The uniform OS API over a running guest, and its C binding.             *)
(*                                                                         *)
(*  - os_new / os_new_linux of the C API (native/src/os.rs) build the      *)
(*    Linux personality; its Profile::new (icebox/src/os/linux/            *)
(*    profile.rs) resolves the symbols and field offsets it needs.         *)
(*  - The default methods of the Os trait (icebox-core/src/os.rs):         *)
(*    collect_processes, find_process_by_pid and find_process_by_name are  *)
(*    sinks passed to for_each_process; a failing sink ends the walk.      *)
(*  - for_each_process of the Linux personality (not in this repository:   *)
(*    modelled from spec 4.7 and 9): walk the circular `tasks` list from   *)
(*    init_task, reading each `next` with Pointer::read_pointer_field      *)
(*    (vminer/src/os/pointer.rs), until the list returns to its head; an   *)
(*    error after MaxIter nodes.                                           *)
(*  - The string getters of the C API (process_name, thread_name,          *)
(*    process_path, vma_path) copy a string into the caller's buffer       *)
(*    through cstring::Formatter (native/src/cstring.rs).                  *)
(*                                                                         *)
(* The guest runs meanwhile: it forks (list_add_tail), exits (list_del,    *)
(* which poisons the removed node's `next`), frees the task_struct of an   *)
(* exited task (its memory becomes unreadable) and renames (prctl)         *)
(* processes.  The slab allocator may hand a freed task_struct to a new   *)
(* task (Fork of a freed node).                                            *)
(* Names and paths are byte sequences (no NUL byte).                       *)
(***************************************************************************)
EXTENDS Integers, Sequences, FiniteSets

CONSTANTS
  Nodes,        \* addresses of task_structs
  InitTask,     \* init_task
  Pids,         \* pids a forked process may get
  Names,        \* comm and path values: sequences of non-zero bytes
  MaxLens,      \* max_len values a C caller passes to the string getters
  BufCap,       \* bytes the C caller really allocated
  MaxIter,      \* the iteration bound of list walks (1 << 20), scaled
  SymbolFiles   \* the kernel profiles a caller may load: [syms, fields]

ASSUME InitTask \in Nodes /\ \A n \in Names : \A i \in 1 .. Len(n) : n[i] # 0
ASSUME \A l \in MaxLens : l <= BufCap

Poison  == "poison"    \* LIST_POISON1: an unmapped address
NoProc  == "none"
NoStr   == <<>>      \* a getter's Ok(None): writes the same as an empty string
Guard   == -2          \* the caller's bytes beyond max_len
Junk    == -1          \* uninitialised bytes of the caller's buffer
NullPtr == -3          \* a null Formatter pointer

Ok(v) == [ok |-> TRUE, val |-> v]
Err   == [ok |-> FALSE]

(* The model keeps the outcome of the most recent API call only: the      *)
(* locals of a call that returned are dead, and the buffer of a getter    *)
(* call is no longer looked at once the caller makes another call.        *)
Blank     == CHOOSE nm \in Names : TRUE   \* the fields of memory that is no task
NoRet     == [kind |-> "none", ok |-> FALSE]
NoFfi     == [maxlen |-> 0, isnull |-> TRUE, ok |-> FALSE, str |-> <<>>]
Untouched == [i \in 0 .. BufCap - 1 |-> Guard]

(* The symbols and <<struct, field>> offsets Profile::new looks up.        *)
RequiredSymbols == {"__per_cpu_start", "current_task", "init_task"}
RequiredFields ==
  {<<"dentry", "d_name">>, <<"dentry", "d_parent">>, <<"file", "f_path">>,
   <<"list_head", "next">>, <<"list_head", "prev">>,
   <<"task_struct", "active_mm">>, <<"task_struct", "children">>,
   <<"task_struct", "comm">>, <<"task_struct", "group_leader">>,
   <<"task_struct", "mm">>, <<"task_struct", "real_parent">>,
   <<"task_struct", "pid">>, <<"task_struct", "sibling">>,
   <<"task_struct", "tasks">>, <<"task_struct", "tgid">>,
   <<"task_struct", "thread_group">>, <<"mm_struct", "pgd">>,
   <<"mm_struct", "mmap">>, <<"path", "dentry">>, <<"qstr", "name">>,
   <<"vm_area_struct", "vm_end">>, <<"vm_area_struct", "vm_next">>,
   <<"vm_area_struct", "vm_start">>, <<"vm_area_struct", "vm_file">>}

VARIABLES
  os,       \* the C caller's Os handle: "none", "built" or "failed"
  live,     \* tasks on the guest's list
  used,     \* task_structs ever allocated
  freed,    \* task_structs freed by the guest: their memory is unmapped
  next,     \* next[n]: the `tasks.next` pointer of n
  pid,      \* pid[n]; init_task (the swapper) has pid 0
  comm,     \* comm[n]
  op,       \* the API call in progress: "idle" or the enumeration running
  query,    \* the pid or name searched for
  cur,      \* the node the walk is at
  count,    \* nodes the walk has visited
  acc,      \* collect_processes: the Vec being pushed to
  found,    \* find_process_by_*: the `proc` variable of the sink
  ret,      \* what the last call returned, if it was an enumeration
  stable,   \* tasks live from the start of the call up to now
  recycled, \* a freed task_struct was given to a new task during the call
  buf,      \* the C caller's buffer, indices 0 .. BufCap - 1
  ffi       \* the last call, if it was a string getter: max_len, null
            \* buffer, result

vars == <<os, live, used, freed, next, pid, comm, op, query, cur, count, acc,
          found, ret, stable, recycled, buf, ffi>>

guest  == <<live, used, freed, next, pid, comm>>
walker == <<op, query, cur, count, acc, found, ret, stable, recycled>>

-----------------------------------------------------------------------------
(* Profile::new: every lookup is `?`, so the profile exists only if all    *)
(* the symbols and fields are there.                                       *)
ProfileNew(file) ==
  RequiredSymbols \subseteq file.syms /\ RequiredFields \subseteq file.fields

(* Os::new: Linux::quick_check (Ok(true), Ok(false) or Err, logged), then  *)
(* Linux::create with the profile; anything else is "Failed to guess".     *)
Os_new(check, file) == check = "linux" /\ ProfileNew(file)

(* Formatter::new: a zero max_len leaves no room even for the NUL; else    *)
(* one byte is kept for it.  ptr is an index into buf or NullPtr.          *)
\* mutant of FormatterNew: no byte reserved for the terminating NUL
FormatterNew_no_reserve(isnull, len) ==
  IF len # 0 THEN [ptr |-> IF isnull THEN NullPtr ELSE 0, len |-> len, written |-> 0]
  ELSE [ptr |-> NullPtr, len |-> 0, written |-> 0]

FormatterNew(isnull, len) ==
  IF len # 0 THEN [ptr |-> IF isnull THEN NullPtr ELSE 0, len |-> len - 1, written |-> 0]
  ELSE [ptr |-> NullPtr, len |-> 0, written |-> 0]

(* fmt::Write::write_str: copy min(len(s), self.len) bytes and advance.    *)
(* Result: the formatter and the buffer after the copy.                    *)
write_str(f, b, s) ==
  IF f.ptr = NullPtr THEN [f |-> f, buf |-> b]
  ELSE LET n == IF Len(s) < f.len THEN Len(s) ELSE f.len
       IN [f   |-> [ptr |-> f.ptr + n, len |-> f.len - n, written |-> f.written + n],
           buf |-> [i \in DOMAIN b |->
                      IF f.ptr <= i /\ i < f.ptr + n THEN s[i - f.ptr + 1] ELSE b[i]]]

(* Drop for Formatter: the NUL at the current position.                    *)
Drop(f, b) == IF f.ptr = NullPtr THEN b ELSE [b EXCEPT ![f.ptr] = 0]

(* KernelSpace::read_memory of field f of the task_struct at a: the value, *)
(* or a fault for the poison address and freed memory.                     *)
read_memory(a, f) ==
  IF a \in used \ freed
  THEN Ok(CASE f = "next" -> next[a] [] f = "pid" -> pid[a] [] f = "comm" -> comm[a])
  ELSE Err

(* Pointer::read_field (pid, comm) and Pointer::read_pointer_field         *)
(* (tasks.next): a task pointer is never null, so their deref_null_ptr     *)
(* checks pass; the word is read in the kernel context.                    *)
read_field(a, f) == read_memory(a, f)

read_pointer_field(a) == read_memory(a, "next")

(* The sink of find_process_by_pid, given the pid v read for p:            *)
(* `proc = Some(p)` on a match, the earlier value otherwise (the last      *)
(* match wins).                                                            *)
\* mutant of find_process_by_pid: a non-matching process resets the result
find_process_by_pid_reset(p, v, q, proc) == IF v = q THEN p ELSE NoProc

find_process_by_pid(p, v, q, proc) == IF v = q THEN p ELSE proc

find_process_by_name(p, v, q, proc) == IF v = q THEN p ELSE proc

(* What the sink of the call in progress does with process p: the `?` on   *)
(* process_pid / process_name makes a failed read the sink's error.        *)
Sink(p) ==
  LET r == read_field(p, IF op = "find_pid" THEN "pid" ELSE "comm")
  IN CASE op = "collect"   -> [ok |-> TRUE, acc |-> Append(acc, p), found |-> found]
       [] ~r.ok            -> [ok |-> FALSE]
       [] op = "find_pid"  -> [ok |-> TRUE, acc |-> acc,
                               found |-> find_process_by_pid(p, r.val, query, found)]
       [] op = "find_name" -> [ok |-> TRUE, acc |-> acc,
                               found |-> find_process_by_name(p, r.val, query, found)]

(* The C caller's buffer as passed: junk up to max_len, its own data       *)
(* beyond.                                                                 *)
Fresh(maxlen) == [i \in 0 .. BufCap - 1 |-> IF i < maxlen THEN Junk ELSE Guard]

(* The body shared by the string getters: on Ok, a Formatter over the      *)
(* buffer, write_str of the string if there is one, the NUL on drop; an    *)
(* Err returns before the Formatter exists.                                *)
CopyOut(r, isnull, maxlen) ==
  LET f == FormatterNew(isnull, maxlen)
      w == IF r.val = NoStr THEN [f |-> f, buf |-> Fresh(maxlen)]
           ELSE write_str(f, Fresh(maxlen), r.val)
  IN /\ os = "built"
     /\ op = "idle"
     /\ buf' = IF r.ok THEN Drop(w.f, w.buf) ELSE Fresh(maxlen)
     /\ ffi' = [maxlen |-> maxlen, isnull |-> isnull, ok |-> r.ok,
                str |-> IF r.ok /\ r.val # NoStr THEN r.val ELSE <<>>]
     /\ ret' = NoRet
     /\ stable' = {}
     /\ recycled' = FALSE
     /\ UNCHANGED <<os, guest, op, query, cur, count, acc, found>>

-----------------------------------------------------------------------------
(* os_new(backend): Os::new with the caller's backend; os_new_linux(       *)
(* backend, profile): Linux::create with a profile the caller loaded.      *)
(* Either replaces a failed attempt; the backend is consumed.              *)
os_new(check, file) ==
  /\ os # "built"
  /\ os' = IF Os_new(check, file) THEN "built" ELSE "failed"
  /\ UNCHANGED <<guest, walker, buf, ffi>>

os_new_linux(file) ==
  /\ os # "built"
  /\ os' = IF ProfileNew(file) THEN "built" ELSE "failed"
  /\ UNCHANGED <<guest, walker, buf, ffi>>

(* os_free: the caller drops its Os between calls.                         *)
os_free ==
  /\ os = "built"
  /\ op = "idle"
  /\ os' = "none"
  /\ UNCHANGED <<guest, walker, buf, ffi>>

(* Start of collect_processes, find_process_by_pid or find_process_by_name *)
(* (C: os_processes; Python: Os.procs and the Os.find_process_by methods). *)
Start(kind, q) ==
  /\ os = "built"
  /\ op = "idle"
  /\ op' = kind
  /\ query' = q
  /\ cur' = InitTask
  /\ count' = 0
  /\ acc' = <<>>
  /\ found' = NoProc
  /\ stable' = live
  /\ recycled' = FALSE
  /\ buf' = Untouched
  /\ ffi' = NoFfi
  /\ UNCHANGED <<os, guest, ret>>

Result(s) == IF op = "collect" THEN s.acc ELSE s.found

(* One node of for_each_process: the sink sees cur, then its `next` is     *)
(* read.  The walk ends Ok back at the head, Err on the sink's error, on   *)
(* an unreadable pointer or after MaxIter nodes.                           *)
for_each_process ==
  LET s  == Sink(cur)
      nx == read_pointer_field(cur)
      Return(r) == /\ op' = "idle"
                   /\ ret' = r
                   /\ cur' = InitTask /\ count' = 0 /\ acc' = <<>> /\ found' = NoProc
      Fail == Return([kind |-> op, ok |-> FALSE])
  IN /\ op # "idle"
     /\ \/ ~s.ok /\ Fail
        \/ s.ok /\ ~nx.ok /\ Fail
        \/ s.ok /\ nx.ok /\ nx.val = InitTask
           /\ Return([kind |-> op, query |-> query, ok |-> TRUE, val |-> Result(s)])
        \/ s.ok /\ nx.ok /\ nx.val # InitTask /\ count + 1 >= MaxIter /\ Fail
        \/ s.ok /\ nx.ok /\ nx.val # InitTask /\ count + 1 < MaxIter
           /\ cur' = nx.val /\ count' = count + 1
           /\ acc' = s.acc /\ found' = s.found
           /\ UNCHANGED <<op, ret>>
     /\ UNCHANGED <<os, guest, query, stable, recycled, buf, ffi>>

(* process_name(os, proc, name, max_len): the comm read through the        *)
(* personality's process_name.                                             *)
process_name(p, isnull, maxlen) == CopyOut(read_field(p, "comm"), isnull, maxlen)

(* thread_name(os, thread, ...): a Linux thread is a task; the personality *)
(* may have no name for it (Ok(None)), which writes an empty string.       *)
thread_name(p, isnull, maxlen) ==
  \E r \in {read_field(p, "comm"), Ok(NoStr)} : CopyOut(r, isnull, maxlen)

(* process_path(os, proc, ...): the exe path the personality resolves from *)
(* guest memory, Ok(None) for a task without one, or a read error.         *)
process_path(p, isnull, maxlen) ==
  \E r \in {Err} \cup {Ok(s) : s \in Names \cup {NoStr}} :
    /\ r.ok => p \in used \ freed
    /\ CopyOut(r, isnull, maxlen)

(* vma_path(os, vma, ...): the mapped file's path, Ok(None) for an         *)
(* anonymous mapping, or a read error.                                     *)
vma_path(isnull, maxlen) ==
  \E r \in {Err} \cup {Ok(s) : s \in Names \cup {NoStr}} : CopyOut(r, isnull, maxlen)

-----------------------------------------------------------------------------
(* The guest: list_add_tail of a new task before init_task, in a fresh    *)
(* task_struct or in one freed earlier.                                    *)
Fork(n, p, nm) ==
  LET last == CHOOSE l \in live : next[l] = InitTask
  IN /\ n \notin used \ freed
     /\ live' = live \cup {n}
     /\ used' = used \cup {n}
     /\ freed' = freed \ {n}
     /\ next' = [next EXCEPT ![last] = n, ![n] = InitTask]
     /\ pid' = [pid EXCEPT ![n] = p]
     /\ comm' = [comm EXCEPT ![n] = nm]
     /\ recycled' = (recycled \/ (op # "idle" /\ n \in freed))
     /\ UNCHANGED <<os, op, query, cur, count, acc, found, ret, stable, buf, ffi>>

(* The guest: a task exits, list_del unlinks and poisons it.               *)
Exit(n) ==
  LET prev == CHOOSE l \in live : next[l] = n
  IN /\ n \in live \ {InitTask}
     /\ live' = live \ {n}
     /\ next' = [next EXCEPT ![prev] = next[n], ![n] = Poison]
     /\ stable' = stable \ {n}
     /\ UNCHANGED <<os, used, freed, pid, comm, op, query, cur, count, acc,
                    found, ret, recycled, buf, ffi>>

(* The guest: the task_struct of an exited task is freed (RCU grace period *)
(* over) and its page unmapped.  Its old fields can no longer be read, so  *)
(* the model forgets them.                                                 *)
Free(n) ==
  /\ n \in used \ (live \cup freed)
  /\ freed' = freed \cup {n}
  /\ pid' = [pid EXCEPT ![n] = 0]
  /\ comm' = [comm EXCEPT ![n] = Blank]
  /\ UNCHANGED <<os, live, used, next, walker, buf, ffi>>

(* The guest: prctl(PR_SET_NAME).                                          *)
Rename(n, nm) ==
  /\ n \in live
  /\ comm' = [comm EXCEPT ![n] = nm]
  /\ UNCHANGED <<os, live, used, freed, next, pid, walker, buf, ffi>>

Init ==
  /\ os = "none"
  /\ live = {InitTask}
  /\ used = {InitTask}
  /\ freed = {}
  /\ next = [n \in Nodes |-> IF n = InitTask THEN InitTask ELSE Poison]
  /\ pid = [n \in Nodes |-> 0]
  /\ comm \in {c \in [Nodes -> Names] : \A n \in Nodes \ {InitTask} : c[n] = Blank}
  /\ op = "idle"
  /\ query = 0
  /\ cur = InitTask
  /\ count = 0
  /\ acc = <<>>
  /\ found = NoProc
  /\ ret = NoRet
  /\ stable = {}
  /\ recycled = FALSE
  /\ buf = Untouched
  /\ ffi = NoFfi

Next ==
  \/ \E c \in {"linux", "other", "error"}, f \in SymbolFiles : os_new(c, f)
  \/ \E f \in SymbolFiles : os_new_linux(f)
  \/ os_free
  \/ Start("collect", 0)
  \/ \E q \in Pids \cup {0} : Start("find_pid", q)
  \/ \E q \in Names : Start("find_name", q)
  \/ for_each_process
  \/ \E p \in used, isnull \in BOOLEAN, l \in MaxLens :
       \/ process_name(p, isnull, l)
       \/ thread_name(p, isnull, l)
       \/ process_path(p, isnull, l)
  \/ \E isnull \in BOOLEAN, l \in MaxLens : vma_path(isnull, l)
  \/ \E n \in Nodes, p \in Pids, nm \in Names : Fork(n, p, nm)
  \/ \E n \in Nodes : Exit(n) \/ Free(n)
  \/ \E n \in Nodes, nm \in Names : Rename(n, nm)

(* The walk is a loop of the calling thread that blocks on nothing: once   *)
(* a call has started, its next step is always enabled and is taken.  The  *)
(* guest, the C caller and the string getters get no fairness.             *)
Spec == Init /\ [][Next]_vars /\ WF_vars(for_each_process)

-----------------------------------------------------------------------------
TypeOK ==
  /\ os \in {"none", "built", "failed"}
  /\ live \subseteq used /\ used \subseteq Nodes /\ InitTask \in live
  /\ freed \subseteq used \ live
  /\ next \in [Nodes -> Nodes \cup {Poison}]
  /\ op \in {"idle", "collect", "find_pid", "find_name"}
  /\ count \in 0 .. MaxIter
  /\ buf \in [0 .. BufCap - 1 -> {0, Junk, Guard} \cup UNION {{n[i] : i \in 1 .. Len(n)} : n \in Names}]

(***************************************************************************)
(* CStringInBounds (the C API contract of the string getters: at most      *)
(* max_len bytes, NUL included, are written): after process_name,          *)
(* thread_name, process_path or vma_path, the caller's bytes at max_len    *)
(* and beyond are untouched, and, when the getter succeeded with a         *)
(* non-null buffer and max_len > 0, the buffer holds a NUL before max_len  *)
(* preceded by a prefix of the string (empty for None).                    *)
(***************************************************************************)
CStringInBounds ==
  /\ \A i \in ffi.maxlen .. BufCap - 1 : buf[i] = Guard
  /\ (ffi.ok /\ ~ffi.isnull /\ ffi.maxlen > 0) =>
       \E k \in 0 .. ffi.maxlen - 1 :
         /\ buf[k] = 0
         /\ k <= Len(ffi.str)
         /\ \A i \in 0 .. k - 1 : buf[i] = ffi.str[i + 1]

(***************************************************************************)
(* FindNoneMeansAbsent (spec 7: find_by_* returns Ok(None) when absent):   *)
(* when find_process_by_pid(q) returns Ok(None), no process that stayed on *)
(* the list during the whole call has pid q, whatever forks, exits, frees  *)
(* and renames the guest did meanwhile, as long as it gave no freed        *)
(* task_struct to a new task: a walk standing on a node that is freed and  *)
(* reused at the tail goes from it straight back to init_task and skips   *)
(* the tasks in between (TLC finds that trace without the ~recycled        *)
(* premise; see the hazards).                                              *)
(***************************************************************************)
FindNoneMeansAbsent ==
  (op = "idle" /\ ~recycled /\ ret.kind = "find_pid" /\ ret.ok /\ ret.val = NoProc) =>
    \A n \in stable : pid[n] # ret.query

=============================================================================
