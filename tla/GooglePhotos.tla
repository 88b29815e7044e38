------------------------------ MODULE GooglePhotos ------------------------------
(***************************************************************************)
(* Downloads of selected photos into one batch directory:                  *)
(* google_photos_download_selection of                                     *)
(* src/files/app/hermes/google_photos_tool.py.  A call goes through its    *)
(* items in order, gives each a name that is free, downloads it beside     *)
(* that name and renames, and writes the manifest at its end.              *)
(*                                                                         *)
(* Calls may overlap, their downloads fail and their process may die       *)
(* between any two steps.  A partial file is its inode, which outlives a   *)
(* rename under the hands of another writer.  Selection, listing, tokens   *)
(* and metadata change nothing here.  External: Google's picker.           *)
(***************************************************************************)
EXTENDS Naturals, Sequences

CONSTANTS
  Downloads,    \* calls of the tool for this batch
  Items,        \* the selected items, in order
  Names,        \* Names[i]: what item i may be called, in order of preference
  Nothing       \* no file, no inode

Places == UNION {{Names[i][n] : n \in DOMAIN Names[i]} : i \in DOMAIN Items}
Inodes == Downloads \X DOMAIN Items

ASSUME PhotosAssumption ==
  /\ Items \in Seq({Items[i] : i \in DOMAIN Items}) /\ DOMAIN Names = DOMAIN Items
  /\ \A i \in DOMAIN Items : Names[i] \in Seq(Places)
  /\ Nothing \notin Inodes \cup Places \cup {Items[i] : i \in DOMAIN Items}
  /\ {"mixed", "empty"} \cap {Items[i] : i \in DOMAIN Items} = {}

VARIABLES
  held,       \* held[f]: the inode named f
  partial,    \* partial[f]: the inode named f.part
  bytes,      \* bytes[n]: what inode n holds
  step,       \* step[c]: where call c is
  item,       \* item[c]: the item it is at
  target,     \* target[c]: the name it chose
  writes,     \* writes[c]: the inode it has open
  downloaded, \* downloaded[c]: its rows, a place and the item
  returned,   \* rows that a call wrote to the manifest and returned (history)
  overlapped  \* calls that ran beside another (history)

files == <<held, partial, bytes>>
photoVars == <<files, step, item, target, writes, downloaded, returned, overlapped>>

Contents == {Items[i] : i \in DOMAIN Items} \cup {"mixed", "empty"}
Rows == [place : Places, is : {Items[i] : i \in DOMAIN Items}]

PhotosTypeOK ==
  /\ held \in [Places -> Inodes \cup {Nothing}] /\ partial \in [Places -> Inodes \cup {Nothing}]
  /\ bytes \in [Inodes -> Contents]
  /\ step \in [Downloads -> {"idle", "choose", "open", "write", "rename", "over"}]
  /\ item \in [Downloads -> 1 .. Len(Items) + 1]
  /\ target \in [Downloads -> Places \cup {Nothing}]
  /\ writes \in [Downloads -> Inodes \cup {Nothing}]
  /\ downloaded \in [Downloads -> SUBSET Rows]
  /\ returned \subseteq Downloads \X Rows
  /\ overlapped \subseteq Downloads

PhotosInit ==
  /\ held = [f \in Places |-> Nothing] /\ partial = [f \in Places |-> Nothing]
  /\ bytes = [n \in Inodes |-> "empty"]
  /\ step = [c \in Downloads |-> "idle"] /\ item = [c \in Downloads |-> 1]
  /\ target = [c \in Downloads |-> Nothing] /\ writes = [c \in Downloads |-> Nothing]
  /\ downloaded = [c \in Downloads |-> {}]
  /\ returned = {} /\ overlapped = {}
-------------------------------------------------------------------------------
Step(c, s) == step' = [step EXCEPT ![c] = s]

Running == {c \in Downloads : step[c] \notin {"idle", "over"}}

Download(c) ==
  /\ step[c] = "idle" /\ Step(c, "choose")
  /\ overlapped' = overlapped \cup IF Running = {} THEN {} ELSE Running \cup {c}
  /\ UNCHANGED <<files, item, target, writes, downloaded, returned>>

\* An item that was not selected.
SkipItem(c) ==
  /\ step[c] = "choose" /\ item[c] <= Len(Items)
  /\ item' = [item EXCEPT ![c] = @ + 1]
  /\ UNCHANGED <<files, step, target, writes, downloaded, returned, overlapped>>

\* Mutant: the first name is taken as it is.
FirstName(names, f) == f = names[1]

\* The first name of which there is no file.
UniquePath(names, f) ==
  \E n \in DOMAIN names :
    /\ f = names[n] /\ held[f] = Nothing
    /\ \A m \in 1 .. n - 1 : held[names[m]] # Nothing

Choose(c, f) ==
  /\ step[c] = "choose" /\ item[c] <= Len(Items)
  /\ UniquePath(Names[item[c]], f)
  /\ target' = [target EXCEPT ![c] = f] /\ Step(c, "open")
  /\ UNCHANGED <<files, item, writes, downloaded, returned, overlapped>>

\* A partial file that is there is opened and emptied, whoever else has it.
OpenPartial(c) ==
  /\ step[c] = "open"
  /\ LET f == target[c]
         n == IF partial[f] = Nothing THEN <<c, item[c]>> ELSE partial[f] IN
       /\ partial' = [partial EXCEPT ![f] = n] /\ writes' = [writes EXCEPT ![c] = n]
       /\ bytes' = [bytes EXCEPT ![n] = "empty"]
  /\ Step(c, "write")
  /\ UNCHANGED <<held, item, target, downloaded, returned, overlapped>>

WritePartial(c) ==
  /\ step[c] = "write"
  /\ LET now == Items[item[c]] IN
       bytes' = [bytes EXCEPT ![writes[c]] = IF @ \in {"empty", now} THEN now ELSE "mixed"]
  /\ Step(c, "rename")
  /\ UNCHANGED <<held, partial, item, target, writes, downloaded, returned, overlapped>>

NextItem(c) ==
  /\ item' = [item EXCEPT ![c] = @ + 1] /\ Step(c, "choose")
  /\ target' = [target EXCEPT ![c] = Nothing] /\ writes' = [writes EXCEPT ![c] = Nothing]

\* Whatever has the partial name by now is renamed.
Rename(c) ==
  /\ step[c] = "rename" /\ partial[target[c]] # Nothing
  /\ held' = [held EXCEPT ![target[c]] = partial[target[c]]]
  /\ partial' = [partial EXCEPT ![target[c]] = Nothing]
  /\ downloaded' = [downloaded EXCEPT ![c] = @ \cup {[place |-> target[c], is |-> Items[item[c]]]}]
  /\ NextItem(c)
  /\ UNCHANGED <<bytes, returned, overlapped>>

\* The download fails, or its partial file is gone: it is removed, and the
\* next item follows.
FailItem(c) ==
  /\ step[c] \in {"open", "write", "rename"}
  /\ partial' = [partial EXCEPT ![target[c]] = Nothing]
  /\ NextItem(c)
  /\ UNCHANGED <<held, bytes, downloaded, returned, overlapped>>

End(c) ==
  /\ Step(c, "over") /\ item' = [item EXCEPT ![c] = 1]
  /\ target' = [target EXCEPT ![c] = Nothing] /\ writes' = [writes EXCEPT ![c] = Nothing]
  /\ downloaded' = [downloaded EXCEPT ![c] = {}]

\* The manifest of an earlier call is replaced, and what it says stays true.
WriteManifest(c) ==
  /\ step[c] = "choose" /\ item[c] = Len(Items) + 1
  /\ returned' = returned \cup {c} \X downloaded[c] /\ End(c)
  /\ UNCHANGED <<files, overlapped>>

\* The process dies; its partial file stays.
Die(c) ==
  /\ c \in Running /\ End(c)
  /\ UNCHANGED <<files, returned, overlapped>>

PhotosNext ==
  \E c \in Downloads :
    \/ Download(c) \/ SkipItem(c) \/ OpenPartial(c) \/ WritePartial(c) \/ Rename(c)
    \/ FailItem(c) \/ WriteManifest(c) \/ Die(c)
    \/ \E f \in Places : Choose(c, f)

PhotosSpec == PhotosInit /\ [][PhotosNext]_photoVars
-------------------------------------------------------------------------------
\* What a call that ran by itself has returned stays as it says, for good: the
\* items it names are in files of their own, whatever calls come after, among
\* them such as overlap or died half way (google_photos_tool.py:166-224).
DownloadsStay ==
  \A one, other \in returned :
    one[1] \notin overlapped =>
      /\ held[one[2].place] # Nothing /\ bytes[held[one[2].place]] = one[2].is
      /\ one[2].place = other[2].place => one = other
===============================================================================
