----------------------------- MODULE ManagedMcp -----------------------------
(***************************************************************************)
(* The entries a server keeps in the configuration files of the programs   *)
(* on its device (daemon/managed-mcp.ts, managed-mcp-config.ts).  A full   *)
(* snapshot with a revision says which bindings are wanted; the entry of   *)
(* each is put into, or taken out of, the file of its program.  The files  *)
(* are the owner's, who edits them at any time and may take the consent    *)
(* back; other processes of the daemon work on the same files and on the   *)
(* same saved state, each under a lock file.                               *)
(***************************************************************************)
EXTENDS Naturals, FiniteSets

(* Bindings is a set of positive numbers. *)
CONSTANTS Workers, Bindings, Agents, MaxRevision, MaxUpsets, MaxConfigures

VARIABLES file, owner, consent, saved, told, held, work, proxy, spent

vars == <<file, owner, consent, saved, told, held, work, proxy, spent>>

Nowhere == "nowhere"
Wants == {"omitted", "off"} \cup Agents
Nothing == [rev |-> 0, wants |-> [b \in Bindings |-> "omitted"], entries |-> [b \in Bindings |-> Nowhere],
            live |-> {}]
Idle == [at |-> "idle", snap |-> Nothing, found |-> FALSE, allowed |-> FALSE, entries |-> Nothing.entries,
         live |-> {}, todo |-> {}, b |-> 0, seen |-> {}]
NoRequest == [at |-> "none", b |-> 0, proof |-> <<>>, lapsed |-> {}]

(* A file holds the owner's own part (its version) and the key of every binding: absent, as it was put    *)
(* there, or the owner's.                                                                                  *)
Init ==
  /\ file = [a \in Agents |-> [own |-> 0, key |-> [b \in Bindings |-> "absent"]]]
  /\ owner = [a \in Agents |-> [own |-> 0, theirs |-> {}]]
  /\ consent = FALSE /\ saved = Nothing /\ told = {} /\ held = {}
  /\ work = [w \in Workers |-> Idle] /\ proxy = NoRequest
  /\ spent = [upsets |-> 0, asked |-> 0]

(* The owner edits a file; a key may be taken over or removed on the way. *)
Edit(a, b, to) ==
  /\ spent.upsets < MaxUpsets /\ to \in {file[a].key[b], "theirs", "absent"}
  /\ file' = [file EXCEPT ![a].own = @ + 1, ![a].key[b] = to]
  /\ owner' = [owner EXCEPT ![a].own = file[a].own + 1,
                            ![a].theirs = IF to = "theirs" THEN @ \cup {b} ELSE @ \ {b}]
  /\ spent' = [spent EXCEPT !.upsets = @ + 1]
  /\ UNCHANGED <<consent, saved, told, held, work, proxy>>

(* `mcp allow` and `mcp deny`. *)
Lapse(why) == [proxy EXCEPT !.lapsed = IF proxy.at = "sent" THEN @ \cup why ELSE @]
Allow ==
  /\ ~ consent /\ consent' = TRUE
  /\ proxy' = [proxy EXCEPT !.lapsed = IF proxy.at = "sent" THEN @ \ {"consent"} ELSE @]
  /\ UNCHANGED <<file, owner, saved, told, held, work, spent>>
Deny ==
  /\ consent /\ spent.upsets < MaxUpsets /\ consent' = FALSE /\ proxy' = Lapse({"consent"})
  /\ spent' = [spent EXCEPT !.upsets = @ + 1]
  /\ UNCHANGED <<file, owner, saved, told, held, work>>

(* configure: the inventory is awaited before the lock; without consent, or a binding that is on, it is  *)
(* not even asked for.                                                                                     *)
Configure(w, rev, wants) ==
  /\ work[w].at = "idle" /\ spent.asked < MaxConfigures
  /\ work' = [work EXCEPT ![w] = [Idle EXCEPT !.at = "asked", !.snap = [Nothing EXCEPT !.rev = rev, !.wants = wants],
                                  !.found = consent /\ \E b \in Bindings : wants[b] \in Agents]]
  /\ spent' = [spent EXCEPT !.asked = @ + 1]
  /\ UNCHANGED <<file, owner, consent, saved, told, held, proxy>>

(* What there is to do for a binding, by the entries there are. *)
Enables(w, b) == work[w].allowed /\ work[w].snap.wants[b] \in Agents
Todo(k) ==
  {b \in Bindings :
     LET on == k.allowed /\ k.snap.wants[b] \in Agents
     IN \/ ~ on /\ k.entries[b] # Nowhere
        \/ on /\ k.found /\ k.entries[b] \in {Nowhere, k.snap.wants[b]}}
Stale(snap) == saved.rev # 0 /\ (snap.rev < saved.rev \/ (snap.rev = saved.rev /\ snap.wants # saved.wants))
Lock(w) ==
  /\ work[w].at = "asked"
  /\ IF "state" \in held \/ Stale(work[w].snap)
     THEN work' = [work EXCEPT ![w] = Idle] /\ UNCHANGED held
     ELSE LET k == [work[w] EXCEPT !.at = "patching", !.allowed = consent, !.entries = saved.entries]
          IN work' = [work EXCEPT ![w] = [k EXCEPT !.todo = Todo(k)]] /\ held' = held \cup {"state"}
  /\ UNCHANGED <<file, owner, consent, saved, told, proxy, spent>>

(* patchManagedMcp under the lock of the file: what is there must be what was put there. *)
Target(w, b) == IF Enables(w, b) THEN work[w].snap.wants[b] ELSE work[w].entries[b]
Omitted(w, b) == work[w].snap.wants[b] = "omitted"
Turn(w, b) == b \in work[w].todo /\ (Omitted(w, b) \/ ~ \E c \in work[w].todo : Omitted(w, c))
Settled(w, b) ==
  [work[w] EXCEPT !.at = "patching", !.todo = @ \ {b}, !.b = 0, !.seen = {},
     !.entries[b] = IF Enables(w, b) THEN Target(w, b) ELSE Nowhere,
     !.live = IF Enables(w, b) THEN @ \cup {b} ELSE @]
(* Taking out an omitted entry is not attempted on its own: its failure ends the whole call. *)
Failed(w, b) ==
  IF Omitted(w, b) THEN Idle
  ELSE [work[w] EXCEPT !.at = "patching", !.todo = @ \ {b}, !.b = 0, !.seen = {}]
Held(w, b, locks) == IF Omitted(w, b) THEN locks \ {"state"} ELSE locks
Open(w, b) ==
  LET a == Target(w, b)
      there == file[a].key[b]
      known == work[w].entries[b] # Nowhere
      refused == \/ a \in held
                 \/ Enables(w, b) /\ known /\ there = "absent"
                 \/ there # "absent" /\ ~ (known /\ there = "ours")
      asWanted == there = IF Enables(w, b) THEN "ours" ELSE "absent"
  IN /\ work[w].at = "patching" /\ Turn(w, b)
     /\ CASE refused -> work' = [work EXCEPT ![w] = Failed(w, b)] /\ held' = Held(w, b, held)
          [] ~ refused /\ asWanted -> work' = [work EXCEPT ![w] = Settled(w, b)] /\ UNCHANGED held
          [] OTHER -> /\ work' = [work EXCEPT ![w].at = "writing", ![w].b = b, ![w].seen = {file[a]}]
                      /\ held' = held \cup {a}
     /\ UNCHANGED <<file, owner, consent, saved, told, proxy, spent>>

(* replacePrivateFile: the file is looked at once more, and put in place whole. *)
Write(w) ==
  LET b == work[w].b
      a == Target(w, b)
  IN /\ work[w].at = "writing"
     /\ IF work[w].seen = {file[a]}
        THEN /\ file' = [file EXCEPT ![a].key[b] = IF Enables(w, b) THEN "ours" ELSE "absent"]
             /\ work' = [work EXCEPT ![w] = Settled(w, b)] /\ held' = held \ {a}
        ELSE /\ work' = [work EXCEPT ![w] = Failed(w, b)] /\ held' = Held(w, b, held \ {a})
             /\ UNCHANGED file
     /\ UNCHANGED <<owner, consent, saved, told, proxy, spent>>

Save(w) ==
  LET k == work[w]
  IN /\ k.at = "patching" /\ k.todo = {}
     /\ saved' = [k.snap EXCEPT !.entries = k.entries, !.live = k.live]
     /\ told' = told \cup {<<k.snap.rev, k.snap.wants>>}
     /\ held' = held \ {"state"} /\ work' = [work EXCEPT ![w] = Idle]
     /\ proxy' = IF k.snap.rev # saved.rev THEN Lapse({"revision"}) ELSE proxy
     /\ UNCHANGED <<file, owner, consent, spent>>

(* The process dies; its lock files stay. *)
Die(w) ==
  /\ work[w].at \in {"patching", "writing"} /\ spent.upsets < MaxUpsets
  /\ work' = [work EXCEPT ![w] = [Idle EXCEPT !.at = "dead"]] /\ spent' = [spent EXCEPT !.upsets = @ + 1]
  /\ UNCHANGED <<file, owner, consent, saved, told, held, proxy>>

(* runManagedMcpProxy: a request goes to the server under the authority of now, and its answer is handed *)
(* to the program only under the same one.                                                                *)
Authority(b) ==
  consent /\ saved.wants[b] \in Agents /\ saved.entries[b] # Nowhere /\ b \in saved.live
Proof(b) == <<saved.rev, saved.wants[b], saved.entries[b]>>
Request(b) ==
  /\ proxy.at # "sent" /\ Authority(b)
  /\ proxy' = [at |-> "sent", b |-> b, proof |-> Proof(b), lapsed |-> {}]
  /\ UNCHANGED <<file, owner, consent, saved, told, held, work, spent>>
Result ==
  /\ proxy.at = "sent"
  /\ proxy' = IF Authority(proxy.b) /\ Proof(proxy.b) = proxy.proof
              THEN [NoRequest EXCEPT !.at = "handed", !.lapsed = proxy.lapsed] ELSE NoRequest
  /\ UNCHANGED <<file, owner, consent, saved, told, held, work, spent>>

Next ==
  \/ \E a \in Agents, b \in Bindings, to \in {"theirs", "absent", "ours"} : Edit(a, b, to)
  \/ Allow \/ Deny \/ Result
  \/ \E b \in Bindings : Request(b)
  \/ \E w \in Workers, rev \in 1 .. MaxRevision, wants \in [Bindings -> Wants] : Configure(w, rev, wants)
  \/ \E w \in Workers : Lock(w) \/ Write(w) \/ Save(w) \/ Die(w) \/ \E b \in Bindings : Open(w, b)
Spec == Init /\ [][Next]_vars

(* What the owner wrote stays, entries of the owner's own under a name of ours included. *)
OwnersWordStands ==
  \A a \in Agents : /\ file[a].own = owner[a].own
                    /\ owner[a].theirs = {b \in Bindings : file[a].key[b] = "theirs"}

(* An entry in a file is one the saved state, or the call that works on it, knows of, and can be taken    *)
(* out again unless a process died over it; what the snapshot in force leaves out was taken out.          *)
OursIsKnown ==
  /\ \A a \in Agents, b \in Bindings :
       file[a].key[b] = "ours" =>
         \/ saved.entries[b] = a
         \/ \E w \in Workers :
              work[w].at = "dead" \/ (work[w].at \in {"patching", "writing"} /\ work[w].entries[b] = a)
  /\ \A b \in Bindings : saved.wants[b] = "omitted" => saved.entries[b] = Nowhere

(* A revision is one snapshot, and none that was answered for is older than the one in force taken back. *)
OneSnapshot ==
  /\ \A s, t \in told : s[1] = t[1] => s = t
  /\ \A t \in told : t[1] <= saved.rev

(* What a server answers reaches a program only while the owner consents and the snapshot is in force     *)
(* under which it was asked.                                                                               *)
ServedUnderConsent == proxy.at = "handed" => proxy.lapsed = {}
=============================================================================
