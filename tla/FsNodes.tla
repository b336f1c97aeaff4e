------------------------------- MODULE FsNodes -------------------------------
(***************************************************************************)
(* The virtio-fs server of a shared host folder (engine/src/fs.rs): the    *)
(* node ids and handles by which the guest's FUSE client names the files   *)
(* it knows, kept across lookups, renames, removals and forgets. The       *)
(* guest's kernel is the client; the host may change the folder as well.   *)
(*                                                                         *)
(* A path is the sequence of its names below the folder. A file on the     *)
(* host is an object, <<kind, number>>, so that a name given to another    *)
(* file can be told from the file. Contents and attributes are left out.   *)
(***************************************************************************)
EXTENDS Integers, SequencesExt

CONSTANTS
    Loads,   \* the folders and the requests made of them
    MaxDepth \* bound on the length of a path

\* A load is the folder at the start (path -> object), whether it is shared read-only, the
\* requests made, the names they use, and bounds on the references the guest has on a node,
\* the node ids given out, the files made and the handles opened.
ASSUME FsAssumption ==
    /\ MaxDepth \in Nat
    /\ \A l \in Loads : /\ l.read_only \in BOOLEAN /\ <<>> \notin DOMAIN l.tree
                       /\ {l.lookups, l.nodes, l.files, l.handles} \subseteq Nat

VARIABLES
    load,    \* the load of this behaviour
    host,    \* path -> object
    files,   \* objects made so far
    fs,      \* the server: nodes, ids, next_node
    handles, \* its open handles
    opened,  \* handles opened so far
    guest,   \* node id -> what the guest's kernel holds on it
    mounted  \* the guest has the folder mounted

vars == <<load, host, files, fs, handles, opened, guest, mounted>>

Root == 1
Exists(p) == p = <<>> \/ p \in DOMAIN host
Object(p) == IF p = <<>> THEN <<"dir", 0>> ELSE host[p]
Dir(p) == Exists(p) /\ Object(p)[1] = "dir"
Entries(p) == {q \in DOMAIN host : Front(q) = p}
Without(f, S) == [x \in DOMAIN f \ S |-> f[x]]
Put(f, x, y) == [z \in DOMAIN f \cup {x} |-> IF z = x THEN y ELSE f[z]]

-----------------------------------------------------------------------------
(* The server's tables *)

HasNode(id) == id \in DOMAIN fs.nodes
Path(id) == fs.nodes[id].path
Child(parent, name) == Append(Path(parent), name)

\* intern(): the id of a path, a new one without references if it has none.
Intern(s, path, parent) ==
    IF path \in DOMAIN s.ids THEN s
    ELSE [nodes |-> Put([s.nodes EXCEPT ![parent].children = @ + 1], s.next,
                        [path |-> path, parent |-> parent, lookups |-> 0, handles |-> 0, children |-> 0]),
          ids |-> Put(s.ids, path, s.next),
          next |-> s.next + 1]

\* saturating_sub()
Minus(a, b) == IF a > b THEN a - b ELSE 0
Pinned(n) == n.lookups > 0 \/ n.handles > 0 \/ n.children > 0

\* Mutant: the parent of a dropped node keeps counting it.
CollectAlone(s, id) ==
    IF id = Root \/ id \notin DOMAIN s.nodes THEN s
    ELSE IF Pinned(s.nodes[id]) THEN s
    ELSE [s EXCEPT !.nodes = Without(@, {id}), !.ids = Without(@, {s.nodes[id].path})]

\* collect(): a node that nothing pins goes, and then the parents that only it pinned.
RECURSIVE Collect(_, _)
Collect(s, id) ==
    IF id = Root \/ id \notin DOMAIN s.nodes THEN s
    ELSE IF Pinned(s.nodes[id]) THEN s
    ELSE LET n == s.nodes[id]
             rest == Without(s.nodes, {id})
             up == IF n.parent \in DOMAIN rest
                   THEN [rest EXCEPT ![n.parent].children = Minus(@, 1)] ELSE rest
         IN Collect([nodes |-> up, ids |-> Without(s.ids, {n.path}), next |-> s.next], n.parent)

Forgets(s, id, count) ==
    Collect(IF id \in DOMAIN s.nodes THEN [s EXCEPT !.nodes[id].lookups = Minus(@, count)] ELSE s, id)

\* write_entry(): the guest gets a reference on the node.
Entry(s, id) == [s EXCEPT !.nodes[id].lookups = @ + 1]

AddHandle(s, id) == [s EXCEPT !.nodes[id].handles = @ + 1]

\* A handle, with what its reader was given of a listing: the objects it began with, those
\* given, and whether the reader was told that there are no more.
NewHandle(id) ==
    [fh |-> opened + 1, node |-> id, listing |-> <<>>, at |-> 0, first |-> {}, given |-> {}, done |-> FALSE]

RemoveHandle(s, h) ==
    Collect(IF h.node \in DOMAIN s.nodes THEN [s EXCEPT !.nodes[h.node].handles = Minus(@, 1)] ELSE s, h.node)

-----------------------------------------------------------------------------
(* The guest's kernel holds the nodes it was given entries for, each under a name in its     *)
(* parent, and makes requests of those and of the root only.                                 *)

Known == {Root} \cup DOMAIN guest
Asks(op) == mounted /\ op \in load.asks

\* The name leads to nothing any more; what it led to stays until it is forgotten.
Unhashed(g, parent, name) ==
    [id \in DOMAIN g |-> IF g[id].parent = parent /\ g[id].name = name
                         THEN [g[id] EXCEPT !.parent = 0, !.name = ""] ELSE g[id]]

Holds(g, id, object, parent, name) ==
    LET old == id \in DOMAIN g
    IN Put(Unhashed(g, parent, name), id,
           [count |-> IF old THEN g[id].count + 1 ELSE 1,
            objects |-> IF old THEN g[id].objects \cup {object} ELSE {object},
            parent |-> parent, name |-> name])

Moved(g, from, name, to, new) ==
    LET h == Unhashed(g, to, new)
    IN [id \in DOMAIN h |-> IF h[id].parent = from /\ h[id].name = name
                            THEN [h[id] EXCEPT !.parent = to, !.name = new] ELSE h[id]]

-----------------------------------------------------------------------------
(* Requests; one that is refused changes nothing *)

\* The reply of LOOKUP, MKDIR and CREATE: the path's node, with a reference more. CREATE
\* opens it as well.
GivesEntry(parent, name, object, opens) ==
    LET path == Child(parent, name)
        s == Intern(fs, path, parent)
        id == s.ids[path]
        t == Entry(s, id)
    IN /\ guest' = Holds(guest, id, object, parent, name)
       /\ t.next <= load.nodes + 2 /\ guest'[id].count <= load.lookups
       /\ fs' = IF opens THEN AddHandle(t, id) ELSE t
       /\ opened' = IF opens THEN opened + 1 ELSE opened
       /\ handles' = IF opens THEN handles \cup {NewHandle(id)} ELSE handles

Lookup(parent, name) ==
    /\ Asks("lookup") /\ HasNode(parent)
    /\ Exists(Child(parent, name))
    /\ GivesEntry(parent, name, Object(Child(parent, name)), FALSE)
    /\ UNCHANGED <<load, host, files, mounted>>

\* FORGET, BATCH_FORGET: the kernel lets go of a node with no open file and no name below it.
Forget(id) ==
    /\ Asks("forget")
    /\ \A h \in handles : h.node # id
    /\ \A c \in DOMAIN guest : guest[c].parent # id
    /\ fs' = Forgets(fs, id, guest[id].count)
    /\ guest' = Without(guest, {id})
    /\ UNCHANGED <<load, host, files, handles, opened, mounted>>

\* MKDIR (and SYMLINK, which differs in what it makes) of a free name.
Make(parent, name) ==
    /\ Asks("mkdir") /\ ~load.read_only /\ HasNode(parent) /\ files < load.files
    /\ LET path == Child(parent, name)
       IN /\ Dir(Path(parent)) /\ ~Exists(path) /\ Len(path) < MaxDepth
          /\ host' = Put(host, path, <<"dir", files + 1>>)
    /\ GivesEntry(parent, name, <<"dir", files + 1>>, FALSE)
    /\ files' = files + 1
    /\ UNCHANGED <<load, mounted>>

\* CREATE opens the file of the name, and makes it if there is none.
Create(parent, name) ==
    /\ Asks("create") /\ ~load.read_only /\ HasNode(parent) /\ files < load.files /\ opened < load.handles
    /\ LET path == Child(parent, name)
           object == IF Exists(path) THEN Object(path) ELSE <<"file", files + 1>>
       IN /\ Dir(Path(parent)) /\ ~Dir(path) /\ Len(path) <= MaxDepth
          /\ host' = Put(host, path, object)
          /\ GivesEntry(parent, name, object, TRUE)
    /\ files' = files + 1
    /\ UNCHANGED <<load, mounted>>

HeldOpen(path) == path \in DOMAIN fs.ids /\ fs.nodes[fs.ids[path]].handles > 0

\* UNLINK, RMDIR: the node of the path loses all the guest's references.
Unlink(parent, name) ==
    /\ HasNode(parent) /\ ~load.read_only
    /\ LET path == Child(parent, name)
       IN /\ Asks(IF HeldOpen(path) THEN "remove open" ELSE "remove")
          /\ Exists(path) /\ Entries(path) = {}
          /\ host' = Without(host, {path})
          /\ fs' = IF path \in DOMAIN fs.ids THEN Forgets(fs, fs.ids[path], load.lookups) ELSE fs
    /\ guest' = Unhashed(guest, parent, name)
    /\ UNCHANGED <<load, files, handles, opened, mounted>>

\* rename(2): what is below the path moves with it, what the new name named is gone.
HostMoved(from, to) ==
    LET kept == {p \in DOMAIN host : ~IsPrefix(from, p) /\ p # to}
        below == {p \in DOMAIN host : IsPrefix(from, p)}
        there(p) == to \o SubSeq(p, Len(from) + 1, Len(p))
    IN [q \in kept \cup {there(p) : p \in below} |->
            IF q \in kept THEN host[q] ELSE host[CHOOSE p \in below : there(p) = q]]

\* Mutant: the node of a moved path keeps its path.
RenamedStale(s, from, to, parent) == s

\* The table after a rename: the node of the path, if it has one, has the new path and parent.
Renamed(s, from, to, parent) ==
    IF from \notin DOMAIN s.ids THEN s
    ELSE LET id == s.ids[from]
             previous == s.nodes[id].parent
             moved == [s EXCEPT !.nodes[id].path = to, !.nodes[id].parent = parent,
                                !.ids = Put(Without(@, {from}), to, id)]
         IN IF previous = parent THEN moved
            ELSE Collect([moved EXCEPT !.nodes[parent].children = @ + 1,
                                       !.nodes[previous].children = Minus(@, 1)], previous)

RenameKind(from, to) ==
    IF Exists(to) THEN "replace" ELSE IF Entries(from) # {} THEN "move tree" ELSE "move"

Rename(parent, name, new_parent, new_name) ==
    /\ HasNode(parent) /\ HasNode(new_parent) /\ ~load.read_only
    /\ LET from == Child(parent, name)
           to == Child(new_parent, new_name)
       IN /\ Asks(RenameKind(from, to))
          /\ Exists(from) /\ Dir(Path(new_parent)) /\ ~IsPrefix(from, to)
          /\ Exists(to) => (Dir(from) <=> Dir(to)) /\ Entries(to) = {}
          /\ Len(to) <= MaxDepth /\ (Dir(from) => Len(to) < MaxDepth)
          /\ host' = HostMoved(from, to)
          /\ fs' = Renamed(fs, from, to, new_parent)
    /\ guest' = Moved(guest, parent, name, new_parent, new_name)
    /\ UNCHANGED <<load, files, handles, opened, mounted>>

\* OPEN, OPENDIR.
Open(id) ==
    /\ Asks("open") /\ HasNode(id) /\ Exists(Path(id)) /\ opened < load.handles
    /\ fs' = AddHandle(fs, id)
    /\ opened' = opened + 1
    /\ handles' = handles \cup {NewHandle(id)}
    /\ UNCHANGED <<load, host, files, guest, mounted>>

\* RELEASE, RELEASEDIR.
Release(h) ==
    /\ mounted
    /\ handles' = handles \ {h}
    /\ fs' = RemoveHandle(fs, h)
    /\ UNCHANGED <<load, host, files, opened, guest, mounted>>

Orders(S) == {q \in [1..Cardinality(S) -> S] : \A i, j \in DOMAIN q : q[i] = q[j] => i = j}

\* Mutant: the directory is read again for every part of the listing.
ListingAnew(h) == Orders(Entries(Path(h.node)))

\* The listing a READDIR goes by: read at offset 0, in whatever order the host gives, and
\* then the one the handle keeps.
Listing(h) == IF h.at = 0 THEN Orders(Entries(Path(h.node))) ELSE {h.listing}

\* READDIR of one part: the next entry that still exists, if there is one. The entries not yet
\* given are interned for their ids and collected again.
ReadDir(h) ==
    /\ Asks("readdir") /\ ~h.done
    /\ h.at = 0 => Dir(Path(h.node))
    /\ \E listing \in Listing(h) :
         LET left == SubSeq(listing, h.at + 1, Len(listing))
             interned == FoldSeq(LAMBDA p, s : Intern(s, p, h.node), fs, left)
             collected == FoldSeq(LAMBDA p, s : Collect(s, interned.ids[p]), interned, left)
             next == SelectInSubSeq(listing, h.at + 1, Len(listing), Exists)
         IN /\ collected.next <= load.nodes + 2
            /\ fs' = collected
            /\ handles' = (handles \ {h}) \cup
                 {[h EXCEPT !.listing = listing,
                            !.first = IF h.at = 0 THEN {Object(p) : p \in Range(listing)} ELSE @,
                            !.given = IF next = 0 THEN @ ELSE @ \cup {Object(listing[next])},
                            !.at = IF next = 0 THEN @ ELSE next,
                            !.done = next = 0]}
    /\ UNCHANGED <<load, host, files, opened, guest, mounted>>

\* DESTROY: the handles left are closed; the kernel forgets without saying so.
Destroy ==
    /\ Asks("destroy")
    /\ fs' = FoldSet(LAMBDA h, s : RemoveHandle(s, h), fs, handles)
    /\ handles' = {} /\ guest' = <<>> /\ mounted' = FALSE
    /\ UNCHANGED <<load, host, files, opened>>

\* Another program on the host removes a file or makes one.
HostChanges(path) ==
    /\ Asks("host")
    /\ IF Exists(path)
       THEN Entries(path) = {} /\ host' = Without(host, {path}) /\ UNCHANGED files
       ELSE /\ Dir(Front(path)) /\ files < load.files
            /\ host' = Put(host, path, <<"file", files + 1>>) /\ files' = files + 1
    /\ UNCHANGED <<load, fs, handles, opened, guest, mounted>>

-----------------------------------------------------------------------------
Init ==
    /\ load \in Loads
    /\ host = load.tree /\ files = Cardinality(DOMAIN load.tree)
    /\ fs = [nodes |-> 1 :> [path |-> <<>>, parent |-> Root, lookups |-> 1, handles |-> 0, children |-> 0],
             ids |-> <<>> :> Root, next |-> 2]
    /\ handles = {} /\ opened = 0 /\ guest = <<>> /\ mounted = TRUE

Next ==
    \/ \E parent \in Known, name \in load.names :
         \/ Lookup(parent, name) \/ Make(parent, name) \/ Create(parent, name) \/ Unlink(parent, name)
         \/ \E new_parent \in Known, new_name \in load.names : Rename(parent, name, new_parent, new_name)
    \/ \E id \in DOMAIN guest : Forget(id)
    \/ \E id \in Known : Open(id)
    \/ \E h \in handles : Release(h) \/ ReadDir(h)
    \/ \E path \in {<<a>> : a \in load.names} \cup (load.names \X load.names) : HostChanges(path)
    \/ Destroy

Spec == Init /\ [][Next]_vars

-----------------------------------------------------------------------------
(* Properties *)

Objects == {"dir", "file"} \X Nat

\* The tables hold what they are declared to: ids are given out in order and never twice,
\* and the guest's names lead to nodes it holds.
TypeOK ==
    /\ \A p \in DOMAIN host : host[p] \in Objects /\ Dir(Front(p))
    /\ DOMAIN fs.nodes \subseteq 1..(fs.next - 1)
    /\ \A id \in DOMAIN fs.nodes : \A k \in {"parent", "lookups", "handles", "children"} : fs.nodes[id][k] \in Nat
    /\ \A g, h \in handles : g.fh = h.fh => g = h
    /\ \A id \in DOMAIN guest : guest[id].parent \in Known \cup {0} /\ guest[id].count \in 1..load.lookups

\* collect() keeps the tables exact through every request, whatever the order of lookups,
\* renames, removals, closes and forgets: a node counts the nodes below it and the handles
\* open on it, has no reference the guest did not get, and is dropped when none of the
\* three is left, never before; a path's id is that of a node with this path.
TablesKept ==
    /\ TypeOK
    /\ \A id \in DOMAIN fs.nodes :
         LET n == fs.nodes[id]
         IN /\ n.children = Cardinality({c \in DOMAIN fs.nodes \ {Root} : fs.nodes[c].parent = id})
            /\ n.handles = Cardinality({h \in handles : h.node = id})
            /\ id # Root => Pinned(n) /\ HasNode(n.parent)
            /\ id # Root /\ mounted => n.lookups <= (IF id \in DOMAIN guest THEN guest[id].count ELSE 0)
    /\ \A h \in handles : HasNode(h.node)
    /\ \A p \in DOMAIN fs.ids : HasNode(fs.ids[p]) /\ Path(fs.ids[p]) = p

\* A node the guest holds stands for one file as long as it is held, and as long as this file
\* is in the folder the node's path is where it is: what the guest does to the node (GETATTR,
\* SETATTR, OPEN, a lookup below it) it does to the file it looked up.
NodesFollow ==
    \A id \in DOMAIN guest :
        /\ Cardinality(guest[id].objects) = 1
        /\ \A p \in DOMAIN host : host[p] \in guest[id].objects => HasNode(id) /\ Path(id) = p

\* As NodesFollow, where nobody else changes the folder, no file is removed while it is open,
\* and a rename neither replaces a file nor moves a directory that has entries.
NodesKept ==
    load.asks \cap {"host", "remove open", "replace", "move tree"} = {} => NodesFollow

\* A reader of a directory, told that there are no more entries, was given every file that
\* was in it when it began and is still there, though entries are removed, by it or by the
\* host, while it reads (as `rm -rf` does).
ListingComplete ==
    \A h \in handles : h.done =>
        \A p \in Entries(Path(h.node)) : host[p] \in h.first => host[p] \in h.given
=============================================================================
