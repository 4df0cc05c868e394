----------------------------- MODULE MappedPage -----------------------------
(***************************************************************************)
(* The device of ex6_ver2.c: every open makes an info with a page of its   *)
(* own, mmap hands the info to the vma, a fault maps the page, and the     *)
(* release of the file frees both.  Descriptors and mappings are shared by *)
(* fork and given up in any order.                                         *)
(*                                                                         *)
(* The kernel's part is external: a vma and a descriptor hold the file,    *)
(* release is called when the last of them is gone, and an entry of a page *)
(* table holds the page.  info->reference is not initialised: kmalloc      *)
(* returns what was there, one of the values Garbage.                      *)
(***************************************************************************)
EXTENDS Integers, FiniteSets

CONSTANTS File,             \* one for each open
          Vma,
          Garbage,          \* integers
          MaxFds            \* bound

\* What the constants are assumed to be.
MappedAssumption ==
    /\ IsFiniteSet(Vma) /\ "none" \notin File /\ Garbage \subseteq Int
    /\ MaxFds \in Nat \ {0}

VARIABLES
    file,       \* per file: descriptors that share it, its info, allocated or freed
    vma,        \* per mapping: its file, or "none"; the entry of its page table
    count,      \* per file: references to its page
    global_var  \* the page of the last open: its file, or "null"

mapping == <<file, vma, count, global_var>>

NoFile == "none"
Maps(f) == {v \in Vma : vma[v].file = f}
Entries(f) == {v \in Maps(f) : vma[v].entry}

MapInit ==
    /\ file = [f \in File |-> [fds |-> 0, info |-> "never", reference |-> 0, first |-> 0]]
    /\ vma = [v \in Vma |-> [file |-> NoFile, entry |-> FALSE]]
    /\ count = [f \in File |-> 0]
    /\ global_var = "null"

-----------------------------------------------------------------------------
CharOpen(f) ==
    /\ file[f].info = "never"
    /\ \E g \in Garbage :
        file' = [file EXCEPT ![f] = [fds |-> 1, info |-> "live", reference |-> g, first |-> g]]
    /\ count' = [count EXCEPT ![f] = 1]
    /\ global_var' = f
    /\ UNCHANGED vma

\* fork and dup: one more descriptor.
Dup(f) ==
    /\ file[f].fds \in 1 .. MaxFds - 1
    /\ file' = [file EXCEPT ![f].fds = @ + 1]
    /\ UNCHANGED <<vma, count, global_var>>

\* Mutation: the function is the flush operation, called at every close.
CharCloseAtFlush(f) ==
    /\ file[f].info = "live"
    /\ file' = [file EXCEPT ![f].info = "freed"]
    /\ count' = [count EXCEPT ![f] = @ - 1]
    /\ UNCHANGED <<vma, global_var>>

\* char_close, the release operation: the page and the info are freed.
CharClose(f) ==
    /\ file[f].info = "live" /\ file[f].fds = 0 /\ Maps(f) = {}
    /\ file' = [file EXCEPT ![f].info = "freed"]
    /\ count' = [count EXCEPT ![f] = @ - 1]
    /\ UNCHANGED <<vma, global_var>>

\* close(2)
Close(f) ==
    /\ file[f].fds > 0
    /\ file' = [file EXCEPT ![f].fds = @ - 1]
    /\ UNCHANGED <<vma, count, global_var>>

-----------------------------------------------------------------------------
\* mmap_open and mmap_close
Reference(f, n) == file' = [file EXCEPT ![f].reference = @ + n]

\* char_mmap calls mmap_open itself.
CharMmap(f, v) ==
    /\ file[f].fds > 0 /\ vma[v].file = NoFile
    /\ vma' = [vma EXCEPT ![v] = [file |-> f, entry |-> FALSE]]
    /\ Reference(f, 1)
    /\ UNCHANGED <<count, global_var>>

\* mmap_fault: the entry gets the reference that get_page takes.
MmapFault(v) ==
    /\ vma[v].file # NoFile /\ ~vma[v].entry /\ file[vma[v].file].info = "live"
    /\ vma' = [vma EXCEPT ![v].entry = TRUE]
    /\ count' = [count EXCEPT ![vma[v].file] = @ + 1]
    /\ UNCHANGED <<file, global_var>>

\* fork: the copy of a vma has no entries, and the kernel calls mmap_open.
DupVma(v, w) ==
    /\ vma[v].file # NoFile /\ vma[w].file = NoFile
    /\ vma' = [vma EXCEPT ![w] = [file |-> vma[v].file, entry |-> FALSE]]
    /\ Reference(vma[v].file, 1)
    /\ UNCHANGED <<count, global_var>>

\* munmap and exit: the entry goes first, then mmap_close is called.
Munmap(v) ==
    /\ vma[v].file # NoFile
    /\ vma' = [vma EXCEPT ![v] = [file |-> NoFile, entry |-> FALSE]]
    /\ count' = [count EXCEPT ![vma[v].file] = @ - (IF vma[v].entry THEN 1 ELSE 0)]
    /\ Reference(vma[v].file, -1)
    /\ UNCHANGED global_var

MapNext ==
    \/ \E f \in File : CharOpen(f) \/ Dup(f) \/ Close(f) \/ CharClose(f)
    \/ \E v \in Vma : \/ MmapFault(v) \/ Munmap(v)
                      \/ \E f \in File : CharMmap(f, v)
                      \/ \E w \in Vma : DupVma(v, w)

MapSpec == MapInit /\ [][MapNext]_mapping

-----------------------------------------------------------------------------
(* Properties                                                              *)

\* Every variable has its type; a page never has fewer than no references.
MapTypeOK ==
    /\ file \in [File -> [fds : 0 .. MaxFds, info : {"never", "live", "freed"},
                          reference : Int, first : Int]]
    /\ vma \in [Vma -> [file : File \cup {NoFile}, entry : BOOLEAN]]
    /\ count \in [File -> Nat]
    /\ global_var \in File \cup {"null"}

Lives(f) ==
    /\ file[f].fds > 0 \/ Maps(f) # {} =>
          /\ file[f].info = "live"
          /\ file[f].reference = file[f].first + Cardinality(Maps(f))
    /\ count[f] = Cardinality(Entries(f)) + (IF file[f].info = "live" THEN 1 ELSE 0)

\* Nothing refers to freed memory: while a descriptor or a vma can reach the info,
\* char_close has not freed it (mmap_fault and mmap_close read it through
\* vm_private_data), and a page that is mapped has a reference for
\* each entry, which mmap_fault took.  info->reference, which nothing reads,
\* has moved by the number of mappings from whatever value it began with.
MappedLives == \A f \in File : Lives(f)
=============================================================================
