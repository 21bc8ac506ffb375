--------------------------- MODULE ImageFilesystem ---------------------------
(***************************************************************************)
(* How an update looks into an official image (cli/update/image_admission  *)
(* .go): inspectOfficialFilesystem reads the layers once, entry by entry,  *)
(* into an index of paths and of the children of each directory; required  *)
(* paths are then resolved through links, and readOfficialFileContents     *)
(* reads the layers a second time for the files that the links led to.     *)
(*                                                                         *)
(* A path is a sequence of names, the root the empty one.  An entry is     *)
(* [op, path, kind, link]: op "set" puts a file, directory or link there,  *)
(* "delete" is a whiteout and "opaque" the opaque whiteout of a directory. *)
(* link is an absolute target: path.Clean and the join of relative targets *)
(* are left out.  The content of a file is named by its place in archive.  *)
(***************************************************************************)
EXTENDS Naturals, Sequences, SequencesExt, TLC

CONSTANTS Paths,       \* the paths that entries may have
          ArchiveEntries, \* the entries that layers are made of
          MaxEntries,  \* bound: entries of all layers together
          MaxLayers,   \* bound: layers of an image
          MaxChain     \* the limit of a link chain, 64 in the code

VARIABLES archive,     \* the entries so far, each with its layer
          layer,       \* the layer being read
          states,      \* officialPathIndex.states: path -> its entry and place
          children,    \* officialPathIndex.children: path -> set of paths
          contents,    \* the second pass: path -> the content it found
          fsAt         \* "index" or "done"

fsVars == <<archive, layer, states, children, contents, fsAt>>

officialPathParent(p) == Front(p)
Directories == UNION {Prefixes(p) : p \in Paths}
Without(S, f) == [p \in DOMAIN f \ S |-> f[p]]

FSInit ==
    /\ archive = <<>> /\ layer = 1 /\ states = <<>> /\ fsAt = "index"
    /\ children = [p \in Directories |-> {}] /\ contents = <<>>

----------------------------------------------------------------------------
(* The index.                                                               *)

RECURSIVE Descendants(_)
Descendants(p) == {p} \union UNION {Descendants(c) : c \in children[p]}

(* What removeSubtree takes out: it follows children, not prefixes.         *)
Removed(root) == Descendants(root)

MutantRemoveSubtree(roots) ==
    LET gone == UNION {Removed(r) : r \in roots}
    IN  /\ states' = Without(gone, states)
        /\ children' = [p \in Directories |-> IF p \in gone THEN {} ELSE children[p]]

removeSubtree(roots) ==
    LET gone == UNION {Removed(r) : r \in roots}
    IN  /\ states' = Without(gone, states)
        /\ children' = [p \in Directories |-> IF p \in gone THEN {} ELSE children[p] \ roots]

removeChildren(directory) == removeSubtree(children[directory])

set(entry) ==
    /\ states' = (entry.path :> [entry |-> entry, at |-> Len(archive) + 1]) @@ states
    /\ children' = [children EXCEPT ![officialPathParent(entry.path)] = @ \union {entry.path}]

(* One header of the tar stream of a layer.                                 *)
indexEntry(entry) ==
    /\ fsAt = "index" /\ Len(archive) < MaxEntries
    /\ archive' = Append(archive, [entry |-> entry, layer |-> layer])
    /\ CASE entry.op = "set" -> set(entry)
         [] entry.op = "delete" -> removeSubtree({entry.path})
         [] OTHER -> removeChildren(entry.path)
    /\ UNCHANGED <<layer, contents, fsAt>>

nextLayer ==
    /\ fsAt = "index" /\ layer < MaxLayers /\ archive # <<>>
    /\ layer' = layer + 1
    /\ UNCHANGED <<archive, states, children, contents, fsAt>>

----------------------------------------------------------------------------
(* resolveOfficialPath: the first link on the path is replaced by its       *)
(* target, and the new path is resolved in the same way.                    *)

Link(p) == p \in DOMAIN states /\ states[p].entry.kind = "link"
LinkOn(p) == {n \in 1..Len(p) : Link(SubSeq(p, 1, n))}
FirstLink(p) == CHOOSE n \in LinkOn(p) : \A m \in LinkOn(p) : n <= m
Follow(p) ==
    states[SubSeq(p, 1, FirstLink(p))].entry.link \o SubSeq(p, FirstLink(p) + 1, Len(p))

Nowhere == [found |-> "absent", path |-> <<>>]
Broken(why) == [found |-> why, path |-> <<>>]

Reached(p) ==
    IF p \in DOMAIN states THEN [found |-> "entry", path |-> p]
    ELSE IF p \in Directories /\ children[p] # {} THEN [found |-> "implicit", path |-> p]
    ELSE Nowhere

RECURSIVE resolveOfficialPath(_, _)
resolveOfficialPath(p, visited) ==
    IF Len(visited) > MaxChain THEN Broken("chain")
    ELSE IF p \in Range(visited) THEN Broken("cycle")
    ELSE IF LinkOn(p) = {} THEN Reached(p)
    ELSE LET end == resolveOfficialPath(Follow(p), Append(visited, p))
         IN  IF end # Nowhere THEN end
             ELSE IF FirstLink(p) < Len(p) THEN Nowhere ELSE Broken("dangling")

----------------------------------------------------------------------------
(* readOfficialFileContents: whiteouts are applied by prefix, through       *)
(* indexRequestedSubtrees.                                                  *)

Requested == {resolveOfficialPath(p, <<>>).path : p \in Paths} \intersect DOMAIN states

indexRequestedSubtrees(directory) == {p \in Requested : IsPrefix(directory, p)}

MutantReadEntry(found, i) ==
    LET entry == archive[i].entry
    IN  IF entry.op = "set" /\ entry.kind = "file" /\ entry.path \in Requested
        THEN found @@ (entry.path :> i) ELSE found

ReadEntry(found, i) ==
    LET entry == archive[i].entry
        below == indexRequestedSubtrees(entry.path)
    IN  CASE entry.op = "opaque" -> Without(below \ {entry.path}, found)
          [] entry.op = "delete" -> Without(below, found)
          [] entry.op = "set" /\ entry.kind = "file" /\ entry.path \in Requested ->
               (entry.path :> i) @@ found
          [] OTHER -> found

readOfficialFileContents ==
    /\ fsAt = "index" /\ archive # <<>>
    /\ contents' = FoldLeft(ReadEntry, <<>>, [i \in 1..Len(archive) |-> i])
    /\ fsAt' = "done"
    /\ UNCHANGED <<archive, layer, states, children>>

FSNext ==
    \/ \E entry \in ArchiveEntries : indexEntry(entry)
    \/ nextLayer \/ readOfficialFileContents

FSSpec == FSInit /\ [][FSNext]_fsVars

----------------------------------------------------------------------------
(* What the layers mean, by the rules of layered archives: an entry shows   *)
(* unless a later layer puts something in its place, or takes away the path *)
(* or a directory above it.                                                 *)

Within(d, p) == IsPrefix(d, p) /\ d # p
Hides(w, p) ==
    \/ w.op = "delete" /\ IsPrefix(w.path, p)
    \/ w.op = "opaque" /\ Within(w.path, p)
    \/ w.op = "set" /\ w.path = p
    \/ w.op = "set" /\ w.kind # "dir" /\ Within(w.path, p)
Shows(i) ==
    /\ archive[i].entry.op = "set"
    /\ \A j \in 1..Len(archive) :
          archive[j].layer > archive[i].layer => ~Hides(archive[j].entry, archive[i].entry.path)
Visible == {i \in 1..Len(archive) : Shows(i)}

(* Layers as the builders write them: directories before what is in them,   *)
(* a path once in a layer and its whiteout not after it, and no directory   *)
(* replaced while something is in it.                                       *)
Canonical ==
    \A i \in 1..Len(archive) :
        LET e == archive[i].entry
            Earlier(j) == j < i /\ archive[j].layer = archive[i].layer
        IN  /\ \A j \in 1..Len(archive) :
                  Earlier(j) => archive[j].entry.path # e.path /\ ~Hides(e, archive[j].entry.path)
            /\ e.op = "set" =>
                 \A n \in 1..(Len(e.path) - 1) : \E j \in 1..(i - 1) :
                    /\ archive[j].entry.op = "set" /\ archive[j].entry.kind = "dir"
                    /\ archive[j].entry.path = SubSeq(e.path, 1, n)
                    /\ \A k \in (j + 1)..i : ~Hides(archive[k].entry, SubSeq(e.path, 1, n))
                                             \/ archive[k].entry = archive[j].entry
            /\ e.op = "set" /\ e.kind # "dir" =>
                 \A j \in 1..(i - 1) : archive[j].entry.op = "set" => ~Within(e.path, archive[j].entry.path)

----------------------------------------------------------------------------
(* The states and the children of the index agree for every archive: each   *)
(* indexed path is among the children of its parent and there is no child   *)
(* without a state, so a whiteout leaves nothing half removed.              *)
FSTypeOK ==
    /\ fsAt \in {"index", "done"} /\ DOMAIN states \subseteq Paths
    /\ \A d \in Directories : children[d] = {p \in DOMAIN states : officialPathParent(p) = d}

(* For canonical layers the index is the filesystem that the image shows:   *)
(* the same paths, each with the entry of the last layer that sets it.      *)
IndexIsOverlay ==
    Canonical => {states[p].at : p \in DOMAIN states} = Visible

(* For canonical layers the content that the second pass finds for a        *)
(* regular file is the content of the entry that the index holds, although  *)
(* the two passes apply whiteouts in different ways.                        *)
ContentsAgree ==
    fsAt = "done" /\ Canonical =>
        \A p \in Requested :
            states[p].entry.kind = "file" => p \in DOMAIN contents /\ contents[p] = states[p].at

RECURSIVE Walk(_, _)
Walk(p, n) == IF n = 0 \/ LinkOn(p) = {} THEN p ELSE Walk(Follow(p), n - 1)

(* A required path resolves to where its links end.  An inspection fails    *)
(* over links only if they lead into each other without end, or if the last *)
(* link of the path leads nowhere.                                          *)
LinksEnd ==
    fsAt = "done" =>
      \A p \in Paths :
        LET end == resolveOfficialPath(p, <<>>)
            last == Walk(p, 3 * MaxChain)
        IN  /\ end.found \in {"chain", "cycle"} <=> LinkOn(last) # {}
            /\ end.found \in {"entry", "implicit"} => end.path = last
            /\ end.found \in {"absent", "dangling"} =>
                  last \notin DOMAIN states /\ ~\E q \in DOMAIN states : officialPathParent(q) = last
(* An inspection sees the image as a container does: the index is its       *)
(* overlay, the second pass finds the contents of the index, and paths      *)
(* resolve to where their links end.                                        *)
ImageIsRead == IndexIsOverlay /\ ContentsAgree /\ LinksEnd

=============================================================================
