------------------------------ MODULE AppTree ------------------------------
(***************************************************************************)
(* The application database of a device (src/sys/App.sedona): the table    *)
(* of components with their tree, the linked list of services, the links   *)
(* between slots, and the file the application is saved to and booted      *)
(* from.  Its operations are called for the commands of Sox clients        *)
(* (src/sox/SoxCommands.sedona) on the thread of the virtual machine, one  *)
(* after the other.  Each client decides on its cache of the tree, which   *)
(* lags behind the device when another client edits it.                    *)
(*                                                                         *)
(* The linked lists of the code are a sequence (children, services) or a   *)
(* set (links, whose order shows in no property).  A component that is in  *)
(* no list of children keeps its entry in comps, as in the code.           *)
(***************************************************************************)
EXTENDS Naturals, Sequences, FiniteSets, SequencesExt, Functions

CONSTANTS
  Clients,     \* the Sox clients that edit the application
  Reorderers,  \* those that reorder children: only their cache matters
  StaleReorders, \* whether they do so before they know the edits of others
  MaxId,       \* memory is exhausted when ids 0..MaxId are in use
  Names,       \* names of components
  Slots,       \* the input slots of a component
  MaxLinks,    \* bound: links at a time
  MaxEdits,    \* bound: commands carried out after the application was saved
  Null         \* an empty entry of comps

Ids == 0..MaxId
App == 0
Links == [from : Ids, to : Ids, slot : Slots]
Components ==
  [parent : Ids, children : Seq(Ids), name : Names \cup {Null}, service : BOOLEAN]
Root == [parent |-> App, children |-> << >>, name |-> Null, service |-> FALSE]

ASSUME AppTreeAssumption ==
  /\ MaxId \in Nat
  /\ MaxLinks \in Nat /\ MaxEdits \in Nat
  /\ Reorderers \subseteq Clients /\ StaleReorders \in BOOLEAN
  /\ Null \notin Names \cup Components

VARIABLES
  comps,       \* App.comps
  services,    \* App.services: the newest service is the head
  linksTo,     \* Component.linksTo
  linksFrom,   \* Component.linksFrom: a link of a component to itself is not in it
  driven,      \* the slots that hold a value a link brought
  file,        \* App.file: the image that was saved last
  saved,       \* whether the application has been saved since the first boot
  edits,       \* commands carried out since then
  status,      \* "running", "stopped" or "failed": the result of the last boot
  known        \* SoxClient.cache: the children of each component as a client has them

vars == <<comps, services, linksTo, linksFrom, driven, file, saved, edits, status, known>>
links == <<linksTo, linksFrom, driven>>
boot == <<file, saved, status>>

AllLinks == UNION Range(linksTo)
Image == [comps |-> comps, links |-> AllLinks]
Alive == {id \in Ids : comps[id] # Null}
Children(id) == comps[id].children
NoKids == [id \in Ids |-> << >>]

Init ==
  /\ comps = [id \in Ids |-> IF id = App THEN Root ELSE Null]
  /\ services = << >>
  /\ linksTo = [id \in Ids |-> {}]
  /\ linksFrom = linksTo
  /\ driven = {}
  /\ file = Image
  /\ saved = FALSE /\ edits = 0
  /\ status = "running"
  /\ known = [k \in Reorderers |-> NoKids]

(* A command a client sends: the device runs it, within the bound.         *)
Edit ==
  /\ status = "running"
  /\ saved => edits < MaxEdits
  /\ edits' = IF saved THEN edits + 1 ELSE edits
  /\ UNCHANGED boot

(* The components remove reaches from c through the lists of children.     *)
Kids(id) == IF comps[id] = Null THEN << >> ELSE Children(id)
Closed(children, S) == \A x \in S : Range(children[x]) \subseteq S
Subtree(children, c) ==
  {x \in Ids : \A S \in SUBSET Ids : c \in S /\ Closed(children, S) => x \in S}

(* The first empty entry of comps.                                         *)
AllocCompId(id) ==
  /\ id \in Ids \ Alive
  /\ \A x \in 0..(id - 1) : x \in Alive

HasChildNamed(p, n) == \E x \in Range(Children(p)) : comps[x] # Null /\ comps[x].name = n

(* What is left of the list s, in its order, without what is not in S.     *)
Follows(s, t) ==
  \A i, j \in DOMAIN t :
    i < j => \E x, y \in DOMAIN s : x < y /\ t[i] = s[x] /\ t[j] = s[y]
Kept(s, S) ==
  LET kept == Range(s) \cap S
  IN  CHOOSE t \in [1..Cardinality(kept) -> kept] : Range(t) = kept /\ Follows(s, t)

(* app.add: the new component is the last child of its parent and, as a    *)
(* service, the first of the services.                                     *)
Add(k, p, n, isService) ==
  /\ Edit
  /\ p \in Alive
  /\ ~HasChildNamed(p, n)
  /\ \E id \in Ids :
       /\ AllocCompId(id)
       /\ comps' = [comps EXCEPT
            ![id] = [parent |-> p, children |-> << >>, name |-> n, service |-> isService],
            ![p].children = Append(@, id)]
       /\ services' = IF isService THEN <<id>> \o services ELSE services
       /\ known' = IF k \notin Reorderers THEN known
                   ELSE [known EXCEPT ![k][id] = << >>,
                           ![k][p] = IF Contains(@, id) THEN @ ELSE Append(@, id)]
  /\ UNCHANGED links

(* removeLink sets the slot a link fed to its default.                     *)
ResetNothing(gone) == {}
Reset(gone) == {<<l.to, l.slot>> : l \in gone}
RemoveLink(l) ==
  /\ linksTo' = [x \in Ids |-> linksTo[x] \ {l}]
  /\ linksFrom' = [x \in Ids |-> linksFrom[x] \ {l}]
  /\ driven' = driven \ Reset({l})

(* removeLink for each link of gone.  The lists of a removed component go  *)
(* with it, whether or not removeLink ran for its links.                   *)
Unhook(removed, gone) ==
  /\ linksTo' = [x \in Ids |-> IF x \in removed THEN {} ELSE linksTo[x] \ gone]
  /\ linksFrom' = [x \in Ids |-> IF x \in removed THEN {} ELSE linksFrom[x] \ gone]
  /\ driven' = {d \in driven : d[1] \notin removed} \ Reset(gone)

CanRemove(c) == c \in Alive \ {App} /\ comps[c].parent \in Alive
UnlistHead(children, c) ==
  IF children # << >> /\ Head(children) = c THEN Tail(children) ELSE children
Unlist(children, c) ==
  IF Contains(children, c)
  THEN RemoveAt(children, CHOOSE i \in DOMAIN children : children[i] = c) ELSE children
HooksTo(id) == linksTo[id]
Hooks(id) == linksTo[id] \cup linksFrom[id]
UnregisteredTop(c, removed) == Kept(services, Ids \ {c})
Unregistered(c, removed) == Kept(services, Ids \ removed)

(* What a client drops from its cache with c (removeChild, cacheRemove).   *)
Uncached(cache, p, c) ==
  [x \in Ids |-> IF x \in Subtree(cache, c) THEN << >>
                 ELSE IF x = p THEN Unlist(cache[x], c) ELSE cache[x]]

(* app.remove: the components below c go first.  When c is not in the list *)
(* of its parent the function returns false before it comes to the links   *)
(* of c, and the client that asked for it keeps c in its cache.            *)
Delete(k, c) ==
  LET p == comps[c].parent
      removed == Subtree([x \in Ids |-> Kids(x)], c)
      listed == Contains(Children(p), c)
      unhooked == IF listed THEN removed ELSE removed \ {c}
  IN  /\ Edit
      /\ CanRemove(c)
      /\ comps' = [x \in Ids |->
            IF x \in removed THEN Null
            ELSE IF x = p THEN [comps[x] EXCEPT !.children = Unlist(@, c)] ELSE comps[x]]
      /\ services' = Unregistered(c, removed)
      /\ Unhook(removed, UNION {Hooks(x) : x \in unhooked})
      /\ known' = IF k \in Reorderers /\ listed
                  THEN [known EXCEPT ![k] = Uncached(@, p, c)] ELSE known

(* renameReq: the siblings are not looked at.                              *)
Rename(c, n) ==
  /\ Edit
  /\ c \in Alive \ {App} /\ comps[c].name # n
  /\ comps' = [comps EXCEPT ![c].name = n]
  /\ UNCHANGED <<services, links, known>>

(* reorderReq: each id must name a child of p; that the list is complete   *)
(* is checked by the client only, against the children it knows.           *)
Orders(s) == {t \in [1..Len(s) -> Range(s)] : Range(t) = Range(s)}
Reorder(k, p, ids) ==
  /\ Edit
  /\ p \in Alive /\ ids # << >>
  /\ StaleReorders \/ known[k][p] = Children(p)
  /\ \A x \in Range(ids) : comps[x] # Null /\ comps[x].parent = p
  /\ comps' = [comps EXCEPT ![p].children = ids]
  /\ known' = [known EXCEPT ![k][p] = ids]
  /\ UNCHANGED <<services, links>>

(* The client applies a tree event of p to its cache (setChildren).        *)
ApplyTree(k, p) ==
  /\ status = "running" /\ p \in Alive
  /\ known[k][p] # Children(p)
  /\ known' = [known EXCEPT ![k] =
       LET lost == UNION {Subtree(known[k], x) : x \in Range(known[k][p]) \ Range(Children(p))}
       IN  [x \in Ids |-> IF x = p THEN Children(p)
                          ELSE IF x \in lost THEN << >> ELSE known[k][x]]]
  /\ UNCHANGED <<comps, services, links, boot, edits>>

(* linkReq 'a' and addLink: no duplicate link and no fan-in.               *)
HasNoFanIn(l) == \A x \in linksTo[l.to] : x.slot # l.slot
InsertLink(l) ==
  /\ linksTo' = [linksTo EXCEPT ![l.to] = @ \cup {l}]
  /\ linksFrom' = IF l.from = l.to THEN linksFrom
                  ELSE [linksFrom EXCEPT ![l.from] = @ \cup {l}]
AddLink(l) ==
  /\ Edit
  /\ Cardinality(AllLinks) < MaxLinks
  /\ l.from \in Alive /\ l.to \in Alive
  /\ HasNoFanIn(l)
  /\ InsertLink(l)
  /\ UNCHANGED <<comps, services, driven, known>>

(* linkReq 'd': lookupLink finds the link in the list of its target.       *)
DeleteLink(l) ==
  /\ Edit
  /\ l.to \in Alive /\ l \in linksTo[l.to]
  /\ RemoveLink(l)
  /\ UNCHANGED <<comps, services, known>>

(* executeTree runs the links into every component it reaches.             *)
Execute ==
  LET reached == Subtree([x \in Ids |-> Kids(x)], App)
      live == {l \in UNION {linksTo[x] : x \in reached} : l.from \in Alive}
  IN  /\ status = "running"
      /\ driven' = driven \cup {<<l.to, l.slot>> : l \in live}
      /\ driven' # driven
      /\ UNCHANGED <<comps, services, linksTo, linksFrom, boot, edits, known>>

(* saveApp writes every component of comps and the links into each; the    *)
(* slots links drive are runtime properties, which are not written.        *)
Save ==
  /\ status = "running" /\ ~saved
  /\ file' = Image
  /\ saved' = TRUE
  /\ UNCHANGED <<comps, services, links, edits, status, known>>

(* The application ends, by quit after Save, by restart or by a power      *)
(* failure; clients have to connect again and start with an empty cache.   *)
Stop ==
  /\ status = "running"
  /\ status' = "stopped"
  /\ comps' = [id \in Ids |-> IF id = App THEN Root ELSE Null]
  /\ services' = << >>
  /\ linksTo' = [id \in Ids |-> {}] /\ linksFrom' = linksTo' /\ driven' = {}
  /\ known' = [k \in Reorderers |-> NoKids]
  /\ UNCHANGED <<file, saved, edits>>

(* loadApp: each component is inserted in the order of the table, so that  *)
(* the last service read is the first of the list; a link both of whose    *)
(* ends are not there ends the program with cannotLoadLink.                *)
Loads(image) ==
  \A l \in image.links : image.comps[l.from] # Null /\ image.comps[l.to] # Null
Load ==
  /\ status = "stopped"
  /\ IF Loads(file)
     THEN /\ status' = "running"
          /\ comps' = file.comps
          /\ services' = Kept([i \in 1..MaxId |-> MaxId + 1 - i],
               {id \in Ids : file.comps[id] # Null /\ file.comps[id].service})
          /\ linksTo' = [x \in Ids |-> {l \in file.links : l.to = x}]
          /\ linksFrom' = [x \in Ids |-> {l \in file.links : l.from = x /\ l.to # x}]
          /\ known' = [k \in Reorderers |->
               [x \in Ids |-> IF comps'[x] = Null THEN << >> ELSE comps'[x].children]]
     ELSE /\ status' = "failed"
          /\ UNCHANGED <<comps, services, linksTo, linksFrom, known>>
  /\ UNCHANGED <<driven, file, saved, edits>>

Next ==
  \/ \E k \in Clients, p \in Ids :
       \/ \E n \in Names, s \in BOOLEAN : Add(k, p, n, s)
       \/ Delete(k, p)
  \/ \E k \in Reorderers, p \in Ids :
       \/ \E ids \in Orders(known[k][p]) : Reorder(k, p, ids)
       \/ ApplyTree(k, p)
  \/ \E c \in Ids, n \in Names : Rename(c, n)
  \/ \E l \in Links : AddLink(l) \/ DeleteLink(l)
  \/ Execute
  \/ Save
  \/ Stop
  \/ Load

Spec == Init /\ [][Next]_vars

-----------------------------------------------------------------------------
(* The component table and the lists of children are one tree: every       *)
(* component but the App is once in the list of exactly its parent, no     *)
(* list names a component that is gone, and the App reaches all of them.   *)
(* A component outside the lists would neither execute nor be deletable.   *)
ChildrenListed ==
  /\ \A id \in Alive : /\ IsInjective(Children(id))
                       /\ \A x \in Range(Children(id)) :
                            x \in Alive /\ x # App /\ comps[x].parent = id
  /\ Alive = Subtree([x \in Ids |-> Kids(x)], App)

(* A link is in the list of both its components or in none, and both are   *)
(* there, whatever was deleted and whichever ids were given out again.     *)
LinksPaired ==
  \A id \in Ids :
    /\ \A l \in linksTo[id] : /\ l.to = id /\ {id, l.from} \subseteq Alive
                              /\ l.from # id => l \in linksFrom[l.from]
    /\ \A l \in linksFrom[id] : l.from = id /\ l \in linksTo[l.to] /\ l.to # id

(* An input holds the value of a link only as long as a link feeds it:     *)
(* removeLink sets it to its default, on every path a link goes away.      *)
DrivenIsLinked ==
  \A d \in driven : \E l \in linksTo[d[1]] : l.slot = d[2]

(* resumeApp walks exactly the services that exist, each once.             *)
ServicesListed ==
  /\ IsInjective(services)
  /\ Range(services) = {id \in Alive : comps[id].service}

(* What the device saved it can boot from: loadApp never refuses a link.   *)
SavedAppLoads == status # "failed"
=============================================================================
