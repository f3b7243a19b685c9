-------------------------- MODULE AnnotationCacheFile --------------------------
(***************************************************************************)
(* How the annotation layer reaches the disk                               *)
(* (corpuswright-core annotation/cache.rs, write_annotation_layer_cache):  *)
(* an envelope is written piece by piece to a temporary file whose name is *)
(* the same for every build, and the temporary file is then renamed over   *)
(* the final one.  A file is an inode, so that a writer goes on writing to *)
(* the file it has open when the name moves.                               *)
(*                                                                         *)
(* An envelope has two pieces here, its manifest and its layer: enough for *)
(* a crash and for another writer to fall between them.                    *)
(***************************************************************************)
EXTENDS Naturals, FiniteSets

CONSTANTS Builds,       \* the builds, in the order they begin: 1..n
          Inodes,       \* the files that may exist
          None          \* no file, no piece

ASSUME NoneAssumption == None \notin Inodes

VARIABLES final,        \* annotation-layer.v2.json, an inode
          temp,         \* annotation-layer.v2.tmp.json, an inode
          content,      \* content[i]: the pieces of inode i
          handle,       \* handle[w]: the inode w has open
          envelope,     \* envelope[w]: what w writes
          writing,      \* writing[w]: how far w has come
          overlapped    \* two writers have been at it at the same time

fileVars == <<final, temp, content, handle, envelope, writing, overlapped>>

Empty == [manifest |-> None, layer |-> None]
Steps == {"no", "created", "manifest", "layer", "retry"}

FileInit ==
  /\ final = None
  /\ temp = None
  /\ content = [i \in Inodes |-> Empty]
  /\ handle = [w \in Builds |-> None]
  /\ envelope = [w \in Builds |-> None]
  /\ writing = [w \in Builds |-> "no"]
  /\ overlapped = FALSE

(* The envelope a file parses to, or None.  Pieces of two envelopes are    *)
(* taken not to parse: nothing is claimed of a file two writers shared.    *)
Parsed(i) ==
  IF i # None /\ content[i].manifest = content[i].layer THEN content[i].layer ELSE None

(* A torn file: it is there and does not parse. *)
Torn(i) == i # None /\ Parsed(i) = None

Busy(w) == writing[w] # "no"

(* An inode no name and no writer refers to. *)
Free(i) == i \notin {final, temp} /\ \A w \in Builds : handle[w] # i

(* File::create on the final path, as a write in place would do. *)
CreateFinal(w, e) ==
  /\ writing[w] = "no"
  /\ envelope' = [envelope EXCEPT ![w] = e]
  /\ \E i \in Inodes :
        /\ IF final = None THEN Free(i) ELSE i = final
        /\ final' = i
        /\ handle' = [handle EXCEPT ![w] = i]
        /\ content' = [content EXCEPT ![i] = Empty]
  /\ writing' = [writing EXCEPT ![w] = "created"]
  /\ overlapped' = (overlapped \/ \E v \in Builds : Busy(v))
  /\ UNCHANGED temp

(* File::create: an existing temporary file is truncated, whoever has it   *)
(* open.                                                                   *)
CreateTemp(w, e) ==
  /\ writing[w] = "no"
  /\ envelope' = [envelope EXCEPT ![w] = e]
  /\ \E i \in Inodes :
        /\ IF temp = None THEN Free(i) ELSE i = temp
        /\ temp' = i
        /\ handle' = [handle EXCEPT ![w] = i]
        /\ content' = [content EXCEPT ![i] = Empty]
  /\ writing' = [writing EXCEPT ![w] = "created"]
  /\ overlapped' = (overlapped \/ \E v \in Builds : Busy(v))
  /\ UNCHANGED final

(* serde_json::to_writer through the BufWriter: the manifest comes first. *)
WriteManifest(w) ==
  /\ writing[w] = "created"
  /\ content' = [content EXCEPT ![handle[w]].manifest = envelope[w]]
  /\ writing' = [writing EXCEPT ![w] = "manifest"]
  /\ UNCHANGED <<final, temp, handle, envelope, overlapped>>

(* The rest of the envelope, the flush and the drop of the writer. *)
WriteLayer(w) ==
  /\ writing[w] = "manifest"
  /\ content' = [content EXCEPT ![handle[w]].layer = envelope[w]]
  /\ writing' = [writing EXCEPT ![w] = "layer"]
  /\ handle' = [handle EXCEPT ![w] = None]
  /\ UNCHANGED <<final, temp, envelope, overlapped>>

Idle(w) ==
  /\ writing' = [writing EXCEPT ![w] = "no"]
  /\ handle' = [handle EXCEPT ![w] = None]
  /\ envelope' = [envelope EXCEPT ![w] = None]

(* The temporary name becomes the final one. *)
Renamed(w) ==
  /\ temp # None
  /\ final' = temp
  /\ temp' = None
  /\ Idle(w)
  /\ UNCHANGED <<content, overlapped>>

Rename(w) == writing[w] = "layer" /\ Renamed(w)

(* The rename fails, for whatever reason: the final file is removed. *)
RemoveFinal(w) ==
  /\ writing[w] = "layer"
  /\ final' = None
  /\ writing' = [writing EXCEPT ![w] = "retry"]
  /\ UNCHANGED <<temp, content, handle, envelope, overlapped>>

RenameAgain(w) == writing[w] = "retry" /\ Renamed(w)

(* The second rename fails as well, or a step before it did: the error is  *)
(* returned and what was written stays.                                    *)
GiveUp(w) ==
  /\ Busy(w)
  /\ Idle(w)
  /\ UNCHANGED <<final, temp, content, overlapped>>

(* The process ends: the files stay as they are. *)
FileCrash ==
  /\ writing' = [w \in Builds |-> "no"]
  /\ handle' = [w \in Builds |-> None]
  /\ envelope' = [w \in Builds |-> None]
  /\ UNCHANGED <<final, temp, content, overlapped>>

(* write_annotation_layer_cache: whatever a crash or an error interrupts,  *)
(* the final file is absent or whole, as long as one build writes at a     *)
(* time.                                                                   *)
NeverTorn == ~overlapped => ~Torn(final)
===============================================================================
