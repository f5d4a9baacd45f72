------------------------- MODULE ConfigFilesProofs --------------------------
(* The configuration's safety for any names, groups, handles and handlers.   *)
(* A load that does not raise establishes everything anew, so the work is in *)
(* the loads that raise and in the steps between awaits: there the invariant *)
(* needs that only one handler is between awaits, that what it unlinks the   *)
(* cookie of is gone, and how the registry's accounts lag behind their files.*)
EXTENDS ConfigFiles, TLAPS

Configs == [Names -> Accounts \union {None}]
GroupFiles == [Groups -> Targets \union {None}]

(* A handler at work has a file and a cookie in hand.                        *)
Handed == \A h \in Handlers : pc[h] # "idle" => my[h] \in [file : Names, cookie : Names]
OneBetweenAwaits ==
    \A h, o \in Handlers : h # o => pc[h] \in Awaiting \/ pc[o] \in Awaiting
Unlinking(f) == \E h \in Handlers : pc[h] \in {"unlink", "undoCookie"} /\ my[h].file = f
Unlinked == \A f \in Names : Unlinking(f) => files[f] = None
(* The registry has the account of a file it has seen in the file's group.   *)
Taken == \A f \in Names \ unseen :
             files[f] # None => regA[f] # None /\ regA[f].group = files[f].group
(* RegistryIsDirectory, between awaits too.                                  *)
Same == \A f \in Names \ unseen :
            \/ Unlinking(f)
            \/ files[f] # None /\ files[f].group \in unseen
            \/ regA[f] = Grouped(files[f], groups)

Shape == TypeOK /\ Handed /\ regG = groups
Inv == Shape /\ OneBetweenAwaits /\ Unlinked /\ Taken /\ Loadable /\ Same

-----------------------------------------------------------------------------
(* apply_group gives an account of the same group.                           *)
LEMMA GroupedAccount ==
    ASSUME NEW r \in Accounts, NEW gs \in GroupFiles, Known(gs, r.group)
    PROVE  Grouped(r, gs) \in Accounts /\ Grouped(r, gs).group = r.group
<1>1. r # None
  BY ConfigAssumption
<1>2. CASE r.group = None
  BY <1>1, <1>2 DEF Grouped
<1>3. CASE r.group # None
  <2>1. r.group \in Groups /\ gs[r.group] \in Targets
    BY <1>3 DEF Known, GroupFiles, Accounts, Groupings
  <2>2. Grouped(r, gs) = [r EXCEPT !.targets = gs[r.group]]
    BY <1>1, <1>3 DEF Grouped
  <2> QED BY <2>1, <2>2 DEF Accounts
<1> QED BY <1>2, <1>3

(* What a load that does not raise leaves behind.                            *)
LEMMA LoadTakesAll ==
    ASSUME files' \in Configs, groups' \in GroupFiles, NEW names, Reloads(names), LoadsNow
    PROVE  /\ regA' \in Configs /\ regG' = groups' /\ unseen' = {}
           /\ Taken' /\ Loadable' /\ Same'
<1>1. /\ regA' = [f \in Names |-> Grouped(files'[f], groups')]
      /\ regG' = groups' /\ unseen' = {}
  BY DEF Reloads
<1>2. Loads(files', cookies', groups')
  BY DEF LoadsNow
<1>3. ASSUME NEW f \in Names
      PROVE  /\ files'[f] # None => /\ Grouped(files'[f], groups') \in Accounts
                                    /\ Grouped(files'[f], groups').group = files'[f].group
             /\ files'[f] = None => Grouped(files'[f], groups') = None
  <2>1. CASE files'[f] = None
    BY <2>1 DEF Grouped
  <2>2. CASE files'[f] # None
    <3>1. files'[f] \in Accounts /\ Known(groups', files'[f].group)
      BY <1>2, <2>2 DEF Loads, Configs
    <3> QED BY <3>1, <2>2, GroupedAccount
  <2> QED BY <2>1, <2>2
<1>4. regA' \in Configs
  BY <1>1, <1>3 DEF Configs
<1>5. Taken'
  BY <1>1, <1>3, ConfigAssumption DEF Taken
<1>6. Loadable'
  BY <1>1, <1>2 DEF Loadable, Seen, Loads
<1>7. Same'
  BY <1>1 DEF Same
<1> QED BY <1>1, <1>4, <1>5, <1>6, <1>7

LEMMA LoadRaises ==
    ASSUME NEW names, Reloads(names), ~LoadsNow
    PROVE  regA' = regA /\ regG' = groups' /\ unseen' = unseen \union names
BY DEF Reloads

(* Both, where the directory keeps its shape.                                *)
LEMMA Reloaded ==
    ASSUME Shape, files' \in Configs, groups' \in GroupFiles,
           NEW names \in SUBSET (Names \union Groups), Reloads(names)
    PROVE  /\ regA' \in Configs /\ regG' = groups' /\ unseen' \subseteq Names \union Groups
           /\ \/ Taken' /\ Loadable' /\ Same'
              \/ regA' = regA /\ unseen' = unseen \union names
<1>1. CASE LoadsNow
  BY <1>1, LoadTakesAll
<1>2. CASE ~LoadsNow
  BY <1>2, LoadRaises DEF Shape, TypeOK, Configs
<1> QED BY <1>1, <1>2

(* A group's file is written, or unlinked when the registry has no member.   *)
LEMMA GroupWritten ==
    ASSUME Inv, NEW g \in Groups, NEW t \in Targets \union {None}, WritesGroup(g, t),
           t = None => Members(regA, g) = {}, followed' \subseteq Names \X Handles
    PROVE  Inv'
<1>1. /\ files' = files /\ cookies' = cookies /\ pc' = pc /\ my' = my /\ spoilt' = spoilt
      /\ groups' = [groups EXCEPT ![g] = t] /\ Reloads({g})
  BY DEF WritesGroup
<1>2. files' \in Configs /\ groups' \in GroupFiles /\ groups \in GroupFiles /\ files \in Configs
  BY <1>1 DEF Inv, Shape, TypeOK, Configs, GroupFiles
<1>3. /\ regA' \in Configs /\ regG' = groups' /\ unseen' \subseteq Names \union Groups
      /\ \/ Taken' /\ Loadable' /\ Same'
         \/ regA' = regA /\ unseen' = unseen \union {g}
  BY <1>1, <1>2, Reloaded DEF Inv
<1>4. Shape'
  BY <1>1, <1>2, <1>3 DEF Inv, Shape, TypeOK, Handed, Configs, GroupFiles
<1>5. OneBetweenAwaits' /\ Unlinked' /\ (\A f \in Names : Unlinking(f)' <=> Unlinking(f))
  BY <1>1 DEF Inv, OneBetweenAwaits, Unlinked, Unlinking
<1>6. ASSUME regA' = regA, unseen' = unseen \union {g}
      PROVE  Taken' /\ Loadable' /\ Same'
  <2>1. Taken'
    BY <1>1, <1>6 DEF Inv, Taken
  <2>2. ASSUME NEW f \in Seen' PROVE f \in Seen /\ Known(groups', files[f].group)
    <3>1. f \in Seen /\ f \in Names \ unseen /\ files[f] # None
      BY <1>1, <1>6, <2>2 DEF Seen
    <3>2. Known(groups, files[f].group) /\ regA[f] # None /\ regA[f].group = files[f].group
      BY <3>1 DEF Inv, Loadable, Taken
    <3>3. CASE t = None
      <4>1. files[f].group # g
        BY <3>1, <3>2, <3>3 DEF Members
      <4> QED BY <1>1, <1>2, <3>1, <3>2, <4>1 DEF Known, GroupFiles
    <3>4. CASE t # None
      BY <1>1, <1>2, <3>1, <3>2, <3>4 DEF Known, GroupFiles
    <3> QED BY <3>1, <3>3, <3>4
  <2>3. Loadable'
    BY <1>1, <2>2 DEF Inv, Loadable
  <2>4. ASSUME NEW f \in Names \ unseen', ~Unlinking(f), files[f] # None => files[f].group \notin unseen'
        PROVE  regA[f] = Grouped(files[f], groups')
    <3>1. regA[f] = Grouped(files[f], groups)
      BY <1>6, <2>4 DEF Inv, Same
    <3>2. CASE files[f] = None \/ files[f].group = None
      BY <3>1, <3>2 DEF Grouped
    <3>3. CASE files[f] # None /\ files[f].group # None
      <4>1. files[f].group \in Groups \ {g}
        BY <1>2, <1>6, <2>4, <3>3 DEF Configs, Accounts, Groupings
      <4>2. groups'[files[f].group] = groups[files[f].group]
        BY <1>1, <1>2, <4>1 DEF GroupFiles
      <4> QED BY <3>1, <4>2 DEF Grouped
    <3> QED BY <3>2, <3>3
  <2>5. Same'
    BY <1>1, <1>5, <1>6, <2>4 DEF Same
  <2> QED BY <2>1, <2>3, <2>5
<1> QED BY <1>3, <1>4, <1>5, <1>6 DEF Inv

(* What of the handlers a step has to keep.                                  *)
HandlersKept ==
    /\ pc' \in [Handlers -> Places]
    /\ my' \in [Handlers -> [file : Names \union {None}, cookie : Names \union {None}]]
    /\ Handed' /\ OneBetweenAwaits'
    /\ \A f \in Names : Unlinking(f)' <=> Unlinking(f)

LEMMA HandlersUntouched ==
    ASSUME Inv, UNCHANGED <<pc, my>>
    PROVE  HandlersKept
BY DEF Inv, Shape, TypeOK, Handed, OneBetweenAwaits, Unlinking, HandlersKept

(* An account's file is written while no handler is unlinking it.            *)
LEMMA AccountWritten ==
    ASSUME Inv, NEW f \in Names, NEW r \in Accounts, ~Unlinking(f),
           files' = [files EXCEPT ![f] = r], UNCHANGED <<cookies, groups>>,
           spoilt \ {f} \subseteq spoilt', spoilt' \subseteq spoilt \union {f}, Reloads({f}),
           HandlersKept, followed' \subseteq Names \X Handles
    PROVE  Inv'
<1>1. /\ files' = [files EXCEPT ![f] = r] /\ cookies' = cookies /\ groups' = groups
      /\ spoilt \ {f} \subseteq spoilt' /\ spoilt' \subseteq spoilt \union {f} /\ Reloads({f})
  OBVIOUS
<1>2. files' \in Configs /\ groups' \in GroupFiles
  BY <1>1 DEF Inv, Shape, TypeOK, Configs, GroupFiles
<1>3. /\ regA' \in Configs /\ regG' = groups' /\ unseen' \subseteq Names \union Groups
      /\ \/ Taken' /\ Loadable' /\ Same'
         \/ regA' = regA /\ unseen' = unseen \union {f}
  BY <1>1, <1>2, Reloaded DEF Inv
<1>4. Shape'
  BY <1>1, <1>2, <1>3 DEF Inv, Shape, TypeOK, Configs, GroupFiles, HandlersKept
<1>5. \A e \in Names \ {f} : files'[e] = files[e]
  BY <1>1 DEF Inv, Shape, TypeOK
<1>6. OneBetweenAwaits' /\ Unlinked' /\ (\A e \in Names : Unlinking(e)' <=> Unlinking(e))
  BY <1>1, <1>5 DEF Inv, Unlinked, HandlersKept
<1>7. ASSUME regA' = regA, unseen' = unseen \union {f}
      PROVE  Taken' /\ Loadable' /\ Same'
  <2>1. Taken'
    BY <1>5, <1>7 DEF Inv, Taken
  <2>2. \A e \in Seen' : e \in Seen /\ files'[e] = files[e]
    BY <1>1, <1>5, <1>7 DEF Seen
  <2>3. Loadable'
    BY <1>1, <2>2 DEF Inv, Loadable
  <2>4. \A e \in Names \ unseen' : e \in Names \ unseen /\ files'[e] = files[e]
    BY <1>5, <1>7
  <2>5. Same'
    BY <1>1, <1>6, <1>7, <2>4 DEF Inv, Same
  <2> QED BY <2>1, <2>3, <2>5
<1> QED BY <1>3, <1>4, <1>6, <1>7 DEF Inv

(* The files are as they were, but perhaps for another cookie.               *)
LEMMA DirectoryKept ==
    ASSUME Inv, UNCHANGED <<files, groups, registry, spoilt>>,
           cookies \subseteq cookies', cookies' \subseteq Names,
           HandlersKept, followed' \subseteq Names \X Handles
    PROVE  Inv'
<1>1. Shape' /\ Unlinked' /\ OneBetweenAwaits'
  BY DEF Inv, Shape, TypeOK, Unlinked, registry, HandlersKept
<1>2. Taken' /\ Loadable' /\ Same'
  BY DEF Inv, Taken, Loadable, Seen, Same, registry, HandlersKept
<1> QED BY <1>1, <1>2 DEF Inv

(* A place that is not between awaits is entered only when no other handler  *)
(* is at one.                                                                *)
LEMMA PlaceTaken ==
    ASSUME Inv, NEW h \in Handlers, NEW place \in Places, NEW m, Goes(h, place, m),
           place = "idle" \/ m \in [file : Names, cookie : Names], m = AtRest \/ place # "idle",
           place \in Awaiting \/ Turn(h) \/ pc[h] \notin Awaiting
    PROVE  /\ pc' \in [Handlers -> Places]
           /\ my' \in [Handlers -> [file : Names \union {None}, cookie : Names \union {None}]]
           /\ Handed' /\ OneBetweenAwaits'
           /\ pc'[h] = place /\ my'[h] = m
           /\ \A o \in Handlers \ {h} : pc'[o] = pc[o] /\ my'[o] = my[o]
<1>1. /\ pc \in [Handlers -> Places]
      /\ my \in [Handlers -> [file : Names \union {None}, cookie : Names \union {None}]]
      /\ pc' = [pc EXCEPT ![h] = place] /\ my' = [my EXCEPT ![h] = m]
  BY DEF Inv, Shape, TypeOK, Goes
<1>2. m \in [file : Names \union {None}, cookie : Names \union {None}]
  BY DEF AtRest
<1>3. /\ pc'[h] = place /\ my'[h] = m
      /\ \A o \in Handlers \ {h} : pc'[o] = pc[o] /\ my'[o] = my[o]
  BY <1>1
<1>4. Handed'
  BY <1>1, <1>3 DEF Inv, Shape, Handed
<1>5. OneBetweenAwaits'
  <2>1. ASSUME NEW o \in Handlers \ {h} PROVE place \in Awaiting \/ pc[o] \in Awaiting
    BY DEF Inv, OneBetweenAwaits, Turn
  <2> QED BY <1>1, <1>3, <2>1 DEF Inv, OneBetweenAwaits
<1> QED BY <1>1, <1>2, <1>3, <1>4, <1>5

(* A configuration file is unlinked; the handler is unlinking from then on.  *)
LEMMA ConfigUnlinked ==
    ASSUME Inv, NEW h \in Handlers, NEW place \in {"unlink", "undoCookie"},
           pc[h] # "idle", Turn(h) \/ pc[h] \notin Awaiting, pc[h] \notin {"unlink", "undoCookie"},
           UnlinksConfig(my[h].file), Goes(h, place, my[h])
    PROVE  Inv'
<1> DEFINE f == my[h].file
<1>1. my[h] \in [file : Names, cookie : Names] /\ f \in Names
  BY DEF Inv, Shape, Handed
<1>2. /\ pc' \in [Handlers -> Places]
      /\ my' \in [Handlers -> [file : Names \union {None}, cookie : Names \union {None}]]
      /\ Handed' /\ OneBetweenAwaits' /\ pc'[h] = place /\ my'[h] = my[h]
      /\ \A o \in Handlers \ {h} : pc'[o] = pc[o] /\ my'[o] = my[o]
  BY <1>1, PlaceTaken DEF Places
<1>3. /\ files' = [files EXCEPT ![f] = None] /\ followed' \subseteq followed
      /\ cookies' = cookies /\ groups' = groups /\ regA' = regA /\ regG' = regG
      /\ unseen' = unseen /\ spoilt' = spoilt \ {f}
  BY DEF UnlinksConfig, Forget, registry
<1>4. /\ files'[f] = None /\ \A e \in Names \ {f} : files'[e] = files[e]
      /\ files' \in Configs
  BY <1>1, <1>3 DEF Inv, Shape, TypeOK, Configs
<1>5. \A e \in Names : Unlinking(e)' <=> Unlinking(e) \/ e = f
  BY <1>2 DEF Unlinking
<1>6. Shape'
  BY <1>2, <1>3, <1>4 DEF Inv, Shape, TypeOK, Configs
<1>7. Unlinked'
  BY <1>4, <1>5 DEF Inv, Unlinked
<1>8. Taken' /\ Loadable'
  BY <1>3, <1>4 DEF Inv, Taken, Loadable, Seen
<1>9. Same'
  BY <1>3, <1>4, <1>5 DEF Inv, Same
<1> QED BY <1>2, <1>6, <1>7, <1>8, <1>9 DEF Inv

(* The cookie is unlinked and the registry reloads: the unlinked file's      *)
(* absence is seen or left unseen.                                           *)
LEMMA CookieUnlinked ==
    ASSUME Inv, NEW h \in Handlers, pc[h] \in {"unlink", "undoCookie"},
           UnlinksCookie(h), Goes(h, "idle", AtRest), Reloads({my[h].file})
    PROVE  Inv'
<1> DEFINE f == my[h].file
           c == my[h].cookie
<1>1. f \in Names /\ c \in Names /\ files[f] = None
  BY DEF Inv, Shape, Handed, Unlinked, Unlinking
<1>2. /\ pc' \in [Handlers -> Places]
      /\ my' \in [Handlers -> [file : Names \union {None}, cookie : Names \union {None}]]
      /\ Handed' /\ OneBetweenAwaits' /\ pc'[h] = "idle"
      /\ \A o \in Handlers \ {h} : pc'[o] = pc[o] /\ my'[o] = my[o]
  BY PlaceTaken DEF Places, Awaiting
<1>3. /\ files' = files /\ groups' = groups /\ followed' = followed
      /\ cookies' = cookies \ {c} /\ spoilt' = spoilt \union (Named(c) \ {f})
  BY DEF UnlinksCookie
<1>4. files' \in Configs /\ groups' \in GroupFiles
  BY <1>3 DEF Inv, Shape, TypeOK, Configs, GroupFiles
<1>5. /\ regA' \in Configs /\ regG' = groups' /\ unseen' \subseteq Names \union Groups
      /\ \/ Taken' /\ Loadable' /\ Same'
         \/ regA' = regA /\ unseen' = unseen \union {f}
  BY <1>1, <1>4, Reloaded DEF Inv
<1>6. Shape'
  BY <1>2, <1>3, <1>4, <1>5 DEF Inv, Shape, TypeOK, Configs, GroupFiles, Named
<1>7. \A e \in Names \ {f} : Unlinking(e)' <=> Unlinking(e)
  BY <1>2 DEF Unlinking
<1>8. Unlinked'
  BY <1>1, <1>3, <1>7 DEF Inv, Unlinked
<1>9. ASSUME regA' = regA, unseen' = unseen \union {f}
      PROVE  Taken' /\ Loadable' /\ Same'
  <2>1. Taken'
    BY <1>3, <1>9 DEF Inv, Taken
  <2>2. \A e \in Seen' : e \in Seen /\ files[e].cookie # c
    BY <1>1, <1>3, <1>9 DEF Seen, Named
  <2>3. Loadable'
    BY <1>3, <2>2 DEF Inv, Loadable
  <2>4. Same'
    BY <1>3, <1>7, <1>9 DEF Inv, Same
  <2> QED BY <2>1, <2>3, <2>4
<1> QED BY <1>2, <1>5, <1>6, <1>8, <1>9 DEF Inv

(* POST /reload: a load that raises changes nothing, the groups being those  *)
(* of the registry already.                                                  *)
LEMMA ReloadOnly ==
    ASSUME Inv, UNCHANGED <<disk, pc, my, spoilt>>, Reloads({}), followed' \subseteq Names \X Handles
    PROVE  Inv'
<1>1. /\ files' = files /\ cookies' = cookies /\ groups' = groups /\ spoilt' = spoilt
      /\ pc' = pc /\ my' = my
  BY DEF disk
<1>2. files' \in Configs /\ groups' \in GroupFiles
  BY <1>1 DEF Inv, Shape, TypeOK, Configs, GroupFiles
<1>3. /\ regA' \in Configs /\ regG' = groups' /\ unseen' \subseteq Names \union Groups
      /\ \/ Taken' /\ Loadable' /\ Same'
         \/ regA' = regA /\ unseen' = unseen
  <2>1. {} \in SUBSET (Names \union Groups) /\ unseen \union {} = unseen
    OBVIOUS
  <2>2. Shape
    BY DEF Inv
  <2>3. /\ regA' \in Configs /\ regG' = groups' /\ unseen' \subseteq Names \union Groups
        /\ \/ Taken' /\ Loadable' /\ Same'
           \/ regA' = regA /\ unseen' = unseen \union {}
    BY <1>2, <2>1, <2>2, Reloaded, Zenon
  <2> QED BY <2>1, <2>3
<1>4. HandlersKept
  BY <1>1, HandlersUntouched
<1>5. Shape' /\ OneBetweenAwaits' /\ Unlinked'
  BY <1>1, <1>2, <1>3, <1>4 DEF Inv, Shape, TypeOK, Configs, GroupFiles, Unlinked, HandlersKept
<1>6. regA' = regA /\ unseen' = unseen => Taken' /\ Loadable' /\ Same'
  BY <1>1, <1>4 DEF Inv, Taken, Loadable, Seen, Same, HandlersKept
<1> QED BY <1>3, <1>5, <1>6 DEF Inv

(* An edit by hand is unseen from then on.                                   *)
LEMMA EditedByHand ==
    ASSUME Inv, EditByHand
    PROVE  Inv'
<1>1. PICK f \in Names, r \in Payloads :
          /\ \A h \in Handlers : pc[h] \in Awaiting
          /\ files' = [files EXCEPT ![f] = r] /\ unseen' = unseen \union {f}
          /\ followed' \subseteq followed
          /\ UNCHANGED <<cookies, groups, regA, regG, pc, my, spoilt>>
  BY DEF EditByHand, Forget
<1>2. r \in Accounts
  BY ConfigAssumption DEF Payloads, Accounts
<1>3. \A e \in Names : ~Unlinking(e)
  BY <1>1 DEF Unlinking, Awaiting
<1>4. files' \in Configs /\ \A e \in Names \ {f} : files'[e] = files[e]
  BY <1>1, <1>2 DEF Inv, Shape, TypeOK, Configs
<1>5. HandlersKept
  BY <1>1, HandlersUntouched
<1>6. Shape' /\ OneBetweenAwaits' /\ Unlinked'
  BY <1>1, <1>3, <1>4, <1>5 DEF Inv, Shape, TypeOK, Configs, Unlinked, HandlersKept
<1>7. Taken' /\ Same'
  BY <1>1, <1>4, <1>5 DEF Inv, Taken, Same, HandlersKept
<1>8. \A e \in Seen' : e \in Seen /\ files'[e] = files[e]
  BY <1>1, <1>4 DEF Seen
<1>9. Loadable'
  BY <1>1, <1>8 DEF Inv, Loadable
<1> QED BY <1>6, <1>7, <1>9 DEF Inv

-----------------------------------------------------------------------------
(* The registry's accounts and groups, as a request finds them.              *)
LEMMA Registered ==
    ASSUME Inv
    PROVE  /\ \A f \in Names : regA[f] # None => regA[f] \in Accounts
           /\ \A g \in Groups : regG[g] # None => regG[g] \in Targets
           /\ followed \subseteq Names \X Handles
BY DEF Inv, Shape, TypeOK

LEMMA Followed ==
    ASSUME NEW t \in Targets, NEW x \in Handles
    PROVE  WithFollow(t, x) \in Targets
BY DEF WithFollow, Targets

(* A request that may start finds nobody unlinking.                          *)
LEMMA NobodyUnlinks ==
    ASSUME Inv, NEW h \in Handlers, pc[h] \in {"idle", "import"}, Turn(h) \/ pc[h] = "import"
    PROVE  \A f \in Names : ~Unlinking(f)
BY DEF Inv, OneBetweenAwaits, Turn, Unlinking, Awaiting

-----------------------------------------------------------------------------
LEMMA GroupRequests ==
    ASSUME Inv, NEW h \in Handlers, CreateGroup(h) \/ UpdateGroup(h) \/ DeleteGroup(h)
    PROVE  Inv'
<1>1. PICK g \in Groups, t \in Edits \union {None} :
          /\ WritesGroup(g, t) /\ followed' \subseteq followed
          /\ t \in Edits \/ Members(regA, g) = {}
  BY DEF CreateGroup, UpdateGroup, DeleteGroup, Forget
<1>2. t \in Targets \union {None} /\ (t \in Edits => t # None)
  BY ConfigAssumption
<1>3. followed' \subseteq Names \X Handles
  BY <1>1, Registered
<1> QED BY <1>1, <1>2, <1>3, GroupWritten

LEMMA EditRequest ==
    ASSUME Inv, NEW h \in Handlers, EditAccount(h) \/ SwitchMode(h)
    PROVE  Inv'
<1>1. PICK f \in Names, r \in Accounts :
          Asked(h) /\ WritesAccount(f, r) /\ followed' \subseteq followed
  <2>1. Payloads \subseteq Accounts
    BY ConfigAssumption DEF Payloads, Accounts
  <2> QED BY <2>1, Registered DEF EditAccount, SwitchMode, Forget
<1>2. ~Unlinking(f)
  BY <1>1, NobodyUnlinks DEF Asked
<1>3. /\ files' = [files EXCEPT ![f] = r] /\ UNCHANGED <<cookies, groups>>
      /\ spoilt \ {f} \subseteq spoilt' /\ spoilt' \subseteq spoilt \union {f}
      /\ UNCHANGED <<pc, my>> /\ Reloads({f})
  BY <1>1 DEF WritesAccount
<1>4. followed' \subseteq Names \X Handles
  BY <1>1, Registered
<1> QED BY <1>2, <1>3, <1>4, HandlersUntouched, AccountWritten

LEMMA FollowRequest ==
    ASSUME Inv, NEW h \in Handlers, Follow(h)
    PROVE  Inv'
<1>1. PICK f \in Names, x \in Handles :
          /\ Asked(h) /\ regA[f] # None /\ Known(regG, regA[f].group)
          /\ IF regA[f].group = None THEN FollowOwn(f, x) ELSE FollowInGroup(regA[f].group, x)
          /\ Answered(f, x)
  BY DEF Follow
<1>2. followed' \subseteq Names \X Handles
  BY <1>1, Registered DEF Answered
<1>3. regA[f] \in Accounts
  BY <1>1, Registered
<1>4. CASE UNCHANGED <<disk, registry, pc, my, byHand, spoilt>>
  BY <1>2, <1>4, HandlersUntouched, DirectoryKept DEF disk, Inv, Shape, TypeOK
<1>5. CASE regA[f].group = None /\ ~UNCHANGED <<disk, registry, pc, my, byHand, spoilt>>
  <2>1. PICK r \in Accounts : WritesAccount(f, r)
    <3>1. [regA[f] EXCEPT !.targets = WithFollow(regA[f].targets, x)] \in Accounts
      BY <1>3, Followed DEF Accounts
    <3> QED BY <1>1, <1>5, <3>1 DEF FollowOwn
  <2>2. ~Unlinking(f)
    BY <1>1, NobodyUnlinks DEF Asked
  <2>3. /\ files' = [files EXCEPT ![f] = r] /\ UNCHANGED <<cookies, groups>>
        /\ spoilt \ {f} \subseteq spoilt' /\ spoilt' \subseteq spoilt \union {f}
        /\ UNCHANGED <<pc, my>> /\ Reloads({f})
    BY <2>1 DEF WritesAccount
  <2> QED BY <1>2, <2>2, <2>3, HandlersUntouched, AccountWritten
<1>6. CASE regA[f].group # None /\ ~UNCHANGED <<disk, registry, pc, my, byHand, spoilt>>
  <2>1. PICK g \in Groups, t \in Targets : WritesGroup(g, t)
    <3>1. regA[f].group \in Groups /\ regG[regA[f].group] # None
      BY <1>1, <1>6 DEF Known
    <3>2. WithFollow(regG[regA[f].group], x) \in Targets
      BY <3>1, Registered, Followed
    <3> QED BY <1>1, <1>6, <3>1, <3>2 DEF FollowInGroup
  <2>2. t # None
    BY ConfigAssumption
  <2> QED BY <1>2, <2>1, <2>2, GroupWritten
<1> QED BY <1>4, <1>5, <1>6

(* Where a handler goes without starting or ending an unlinking.             *)
LEMMA HandlerGoes ==
    ASSUME Inv, NEW h \in Handlers, NEW place \in Places \ {"unlink", "undoCookie"}, NEW m,
           Goes(h, place, m), pc[h] \notin {"unlink", "undoCookie"},
           place = "idle" \/ m \in [file : Names, cookie : Names], m = AtRest \/ place # "idle",
           place \in Awaiting \/ Turn(h) \/ pc[h] \notin Awaiting
    PROVE  HandlersKept
<1>1. /\ pc' \in [Handlers -> Places]
      /\ my' \in [Handlers -> [file : Names \union {None}, cookie : Names \union {None}]]
      /\ Handed' /\ OneBetweenAwaits' /\ pc'[h] = place
      /\ \A o \in Handlers \ {h} : pc'[o] = pc[o] /\ my'[o] = my[o]
  BY PlaceTaken
<1>2. \A f \in Names : Unlinking(f)' <=> Unlinking(f)
  BY <1>1 DEF Unlinking
<1> QED BY <1>1, <1>2 DEF HandlersKept

LEMMA DeleteRequest ==
    ASSUME Inv, NEW h \in Handlers, DeleteAccount(h)
    PROVE  Inv'
<1>1. PICK f \in Names :
          /\ pc[h] = "idle" /\ regA[f] # None
          /\ Goes(h, "erase", [file |-> f, cookie |-> regA[f].cookie])
          /\ UNCHANGED <<files, groups, cookies, registry, spoilt, followed>>
  BY DEF DeleteAccount, Asked, disk
<1>2. [file |-> f, cookie |-> regA[f].cookie] \in [file : Names, cookie : Names]
  BY <1>1, Registered DEF Accounts
<1>3. HandlersKept
  BY <1>1, <1>2, HandlerGoes DEF Places, Awaiting
<1> QED BY <1>1, <1>3, Registered, DirectoryKept DEF Inv, Shape, TypeOK

LEMMA ImportRequest ==
    ASSUME Inv, NEW h \in Handlers, Import(h)
    PROVE  Inv'
<1>1. PICK f \in Names :
          /\ pc[h] = "idle" /\ Turn(h)
          /\ cookies' = cookies \union {f}
          /\ Goes(h, "import", [file |-> f, cookie |-> f])
          /\ UNCHANGED <<files, groups, registry, spoilt, followed>>
  BY DEF Import, Asked
<1>2. [file |-> f, cookie |-> f] \in [file : Names, cookie : Names]
  OBVIOUS
<1>3. HandlersKept
  BY <1>1, <1>2, HandlerGoes DEF Places, Awaiting
<1> QED BY <1>1, <1>3, Registered, DirectoryKept DEF Inv, Shape, TypeOK

LEMMA ImportAnswers ==
    ASSUME Inv, NEW h \in Handlers, ImportKept(h) \/ ImportFailed(h)
    PROVE  Inv'
<1>1. /\ pc[h] = "check" /\ Turn(h)
      /\ Goes(h, "idle", AtRest) \/ Goes(h, "undo", my[h])
      /\ UNCHANGED <<files, groups, cookies, registry, spoilt, followed>>
  BY DEF ImportKept, ImportFailed, disk
<1>2. my[h] \in [file : Names, cookie : Names]
  BY <1>1 DEF Inv, Shape, Handed
<1>3. HandlersKept
  <2>1. CASE Goes(h, "idle", AtRest)
    BY <1>1, <2>1, HandlerGoes DEF Places, Awaiting
  <2>2. CASE Goes(h, "undo", my[h])
    BY <1>1, <1>2, <2>2, HandlerGoes DEF Places, Awaiting
  <2> QED BY <1>1, <2>1, <2>2
<1> QED BY <1>1, <1>3, Registered, DirectoryKept DEF Inv, Shape, TypeOK

LEMMA ImportWrites ==
    ASSUME Inv, NEW h \in Handlers, ImportConfig(h)
    PROVE  Inv'
<1> DEFINE f == my[h].file
<1>1. PICK g \in Groupings, t \in Edits, place \in {"check", "undo"} :
          /\ pc[h] = "import"
          /\ files' = [files EXCEPT ![f] = [id |-> f, group |-> g, cookie |-> f, targets |-> t]]
          /\ UNCHANGED <<cookies, groups, spoilt, followed>>
          /\ Reloads({f}) /\ Goes(h, place, my[h])
  BY DEF ImportConfig
<1>2. my[h] \in [file : Names, cookie : Names] /\ f \in Names
  BY <1>1 DEF Inv, Shape, Handed
<1>3. [id |-> f, group |-> g, cookie |-> f, targets |-> t] \in Accounts
  BY <1>2, ConfigAssumption DEF Accounts
<1>4. HandlersKept
  BY <1>1, <1>2, HandlerGoes DEF Places, Awaiting
<1>5. ~Unlinking(f)
  BY <1>1, <1>2, NobodyUnlinks
<1> QED BY <1>1, <1>2, <1>3, <1>4, <1>5, Registered, AccountWritten

LEMMA Unlinks ==
    ASSUME Inv, NEW h \in Handlers, Erase(h) \/ Undo(h) \/ Unlink(h) \/ UndoCookie(h)
    PROVE  Inv'
<1>1. CASE Erase(h)
  BY <1>1, ConfigUnlinked DEF Erase
<1>2. CASE Undo(h)
  BY <1>2, ConfigUnlinked DEF Undo, Awaiting
<1>3. CASE Unlink(h) \/ UndoCookie(h)
  BY <1>3, CookieUnlinked DEF Unlink, UndoCookie
<1> QED BY <1>1, <1>2, <1>3

-----------------------------------------------------------------------------
LEMMA Initially == Init => Inv
<1>1. SUFFICES ASSUME Init PROVE Inv
  OBVIOUS
<1>2. Shape
  BY <1>1 DEF Init, Shape, TypeOK, Handed, Places, Awaiting, AtRest
<1>3. OneBetweenAwaits /\ Unlinked /\ Taken /\ Loadable /\ Same
  BY <1>1 DEF Init, OneBetweenAwaits, Unlinked, Unlinking, Taken, Loadable, Seen, Same, Grouped,
     Awaiting
<1> QED BY <1>2, <1>3 DEF Inv

LEMMA Stutters == Inv /\ UNCHANGED vars => Inv'
<1>1. SUFFICES ASSUME Inv, UNCHANGED vars PROVE Inv'
  OBVIOUS
<1>2. HandlersKept
  BY <1>1, HandlersUntouched DEF vars
<1> QED BY <1>1, <1>2, Registered, DirectoryKept DEF vars, disk, Inv, Shape, TypeOK

LEMMA Inductive == Inv /\ [Next]_vars => Inv'
<1>1. SUFFICES ASSUME Inv, [Next]_vars PROVE Inv'
  OBVIOUS
<1>2. CASE EditByHand
  BY <1>1, <1>2, EditedByHand
<1>3. ASSUME NEW h \in Handlers, Requests(h) PROVE Inv'
  <2>1. CASE Reload(h)
    <3>1. UNCHANGED <<disk, pc, my, spoilt>> /\ Reloads({}) /\ followed' \subseteq Names \X Handles
      BY <1>1, <2>1, Registered DEF Reload
    <3> QED BY <1>1, <3>1, ReloadOnly
  <2>2. CASE CreateGroup(h) \/ UpdateGroup(h) \/ DeleteGroup(h)
    BY <1>1, <2>2, GroupRequests
  <2>3. CASE EditAccount(h) \/ SwitchMode(h)
    BY <1>1, <2>3, EditRequest
  <2>4. CASE Follow(h)
    BY <1>1, <2>4, FollowRequest
  <2>5. CASE DeleteAccount(h)
    BY <1>1, <2>5, DeleteRequest
  <2>6. CASE Import(h)
    BY <1>1, <2>6, ImportRequest
  <2> QED BY <1>3, <2>1, <2>2, <2>3, <2>4, <2>5, <2>6 DEF Requests
<1>4. ASSUME NEW h \in Handlers, Continues(h) PROVE Inv'
  <2>1. CASE Erase(h) \/ Undo(h) \/ Unlink(h) \/ UndoCookie(h)
    BY <1>1, <2>1, Unlinks
  <2>2. CASE ImportConfig(h)
    BY <1>1, <2>2, ImportWrites
  <2>3. CASE ImportKept(h) \/ ImportFailed(h)
    BY <1>1, <2>3, ImportAnswers
  <2> QED BY <1>4, <2>1, <2>2, <2>3 DEF Continues
<1>5. CASE UNCHANGED vars
  BY <1>1, <1>5, Stutters
<1> QED BY <1>1, <1>2, <1>3, <1>4, <1>5 DEF Next

THEOREM Invariance == Spec => []Inv
BY Initially, Inductive, PTL DEF Spec

(* The shape of the directory, the registry and the handlers, for every      *)
(* Names, Groups, Handles and Handlers.                                      *)
THEOREM TypeCorrect == Spec => []TypeOK
<1>1. Inv => TypeOK
  BY DEF Inv, Shape
<1> QED BY <1>1, Invariance, PTL

(* No request but the three that spoil a file leaves a file the registry has *)
(* seen that a load would refuse, at any instant.                            *)
THEOREM StaysLoadable == Spec => []Loadable
<1>1. Inv => Loadable
  BY DEF Inv
<1> QED BY <1>1, Invariance, PTL

(* Between requests the registry is what a load would give.                  *)
THEOREM RegistryAgrees == Spec => []RegistryIsDirectory
<1>1. Inv => RegistryIsDirectory
  BY DEF Inv, Shape, Same, Unlinking, RegistryIsDirectory, Awaiting
<1> QED BY <1>1, Invariance, PTL

-----------------------------------------------------------------------------
(* FollowReaches.  A switch of the mode writes what the registry has, so the *)
(* registry's account has to carry the handle too, even where it lags.       *)
On(t, x) == t.on /\ x \in t.follow
Carried(f, x) ==
    /\ files[f] # None /\ Known(groups, files[f].group)
    /\ IF files[f].group = None THEN On(files[f].targets, x) ELSE On(groups[files[f].group], x)
    /\ regA[f] # None /\ regA[f].group = files[f].group
    /\ regA[f].group = None => On(regA[f].targets, x)
Carrying == \A f \in Names, x \in Handles : <<f, x>> \in followed => Carried(f, x)
(* The file an import is about to write is not there yet.                    *)
Importing == \A h \in Handlers : pc[h] = "import" => files[my[h].file] = None
Lasts == Inv /\ Carrying /\ Importing

(* What a load takes in of a file that has the handle.                       *)
LEMMA CarriedByLoad ==
    ASSUME files' \in Configs, groups' \in GroupFiles, NEW f \in Names, NEW x \in Handles,
           NEW names, Reloads(names), LoadsNow, files'[f] # None,
           IF files'[f].group = None THEN On(files'[f].targets, x)
                                     ELSE On(groups'[files'[f].group], x)
    PROVE  Carried(f, x)'
<1>1. regA'[f] = Grouped(files'[f], groups') /\ Known(groups', files'[f].group)
  BY DEF Reloads, LoadsNow, Loads
<1>2. files'[f] \in Accounts
  BY DEF Configs
<1>3. regA'[f] # None /\ regA'[f].group = files'[f].group
  BY <1>1, <1>2, GroupedAccount, ConfigAssumption
<1>4. files'[f].group = None => regA'[f] = files'[f]
  BY <1>1 DEF Grouped
<1> QED BY <1>1, <1>3, <1>4 DEF Carried

(* A step after which the files of a followed handle have it still, and the  *)
(* registry has loaded them or is as it was.                                 *)
LEMMA CarriedOn ==
    ASSUME Lasts, Inv', NEW names, Reloads(names), NEW f \in Names, NEW x \in Handles,
           Carried(f, x), files'[f] # None, files'[f].group = files[f].group,
           files[f].group = None => On(files'[f].targets, x),
           files[f].group # None => On(groups'[files[f].group], x) /\ Known(groups', files[f].group)
    PROVE  Carried(f, x)'
<1>1. files' \in Configs /\ groups' \in GroupFiles
  BY DEF Inv, Shape, TypeOK, Configs, GroupFiles
<1>2. CASE LoadsNow
  BY <1>1, <1>2, CarriedByLoad
<1>3. CASE ~LoadsNow
  <2>1. regA' = regA
    BY <1>3, LoadRaises
  <2>2. Known(groups', files'[f].group)
    BY DEF Known
  <2> QED BY <2>1, <2>2 DEF Carried
<1> QED BY <1>2, <1>3

(* A step that leaves the files and the registry leaves the handles.         *)
LEMMA CarriedStill ==
    ASSUME Lasts, followed' \subseteq followed, groups' = groups, regA' = regA,
           \A f \in Names : (\E x \in Handles : <<f, x>> \in followed') => files'[f] = files[f]
    PROVE  Carrying'
BY DEF Lasts, Carrying, Carried

LEMMA CarriedByGroups ==
    ASSUME Lasts, Inv', NEW h \in Handlers, CreateGroup(h) \/ UpdateGroup(h) \/ DeleteGroup(h)
    PROVE  Carrying'
<1>1. PICK g \in Groups, t \in Edits \union {None} :
          /\ WritesGroup(g, t) /\ followed' \subseteq followed
          /\ \/ regG[g] = None
             \/ \A q \in followed' : q[1] \notin Members(files, g)
             \/ Members(regA, g) = {}
  BY DEF CreateGroup, UpdateGroup, DeleteGroup, Forget
<1>2. /\ files' = files /\ Reloads({g}) /\ groups' = [groups EXCEPT ![g] = t]
      /\ groups \in GroupFiles /\ regG = groups
  BY <1>1 DEF WritesGroup, Lasts, Inv, Shape, TypeOK, GroupFiles
<1>3. SUFFICES ASSUME NEW f \in Names, NEW x \in Handles, <<f, x>> \in followed' PROVE Carried(f, x)'
  BY DEF Carrying
<1>4. Carried(f, x) /\ files[f] # None
  BY <1>1, <1>3 DEF Lasts, Carrying, Carried
<1>5. files[f].group # g
  <2>1. SUFFICES ASSUME files[f].group = g PROVE FALSE
    OBVIOUS
  <2>2. f \in Members(files, g) /\ f \in Members(regA, g) /\ Known(groups, g)
    BY <1>4, <2>1 DEF Carried, Members
  <2>3. regG[g] # None
    BY <1>2, <2>2, ConfigAssumption DEF Known
  <2> QED BY <1>1, <1>3, <2>2, <2>3
<1>6. files[f].group # None => /\ groups'[files[f].group] = groups[files[f].group]
                               /\ Known(groups', files[f].group)
  BY <1>2, <1>4, <1>5 DEF Carried, Known, GroupFiles
<1> QED BY <1>2, <1>4, <1>6, CarriedOn DEF Carried

LEMMA CarriedByEdits ==
    ASSUME Lasts, Inv', NEW h \in Handlers, EditAccount(h) \/ SwitchMode(h)
    PROVE  Carrying'
<1>1. PICK f \in Names, r \in Accounts :
          /\ WritesAccount(f, r) /\ followed' \subseteq followed
          /\ (\A q \in followed' : q[1] # f) \/ r = regA[f]
  <2>1. Payloads \subseteq Accounts
    BY ConfigAssumption DEF Payloads, Accounts
  <2> QED BY <2>1, Registered DEF Lasts, EditAccount, SwitchMode, Forget
<1>2. /\ files' = [files EXCEPT ![f] = r] /\ groups' = groups /\ Reloads({f})
      /\ files'[f] = r /\ \A e \in Names \ {f} : files'[e] = files[e]
  BY <1>1 DEF WritesAccount, Lasts, Inv, Shape, TypeOK
<1>3. SUFFICES ASSUME NEW e \in Names, NEW x \in Handles, <<e, x>> \in followed' PROVE Carried(e, x)'
  BY DEF Carrying
<1>4. Carried(e, x)
  BY <1>1, <1>3 DEF Lasts, Carrying
<1>5. CASE e # f
  BY <1>2, <1>4, <1>5, CarriedOn DEF Carried
<1>6. CASE e = f
  <2>1. r = regA[f] /\ files'[f] # None /\ files'[f].group = files[f].group
    BY <1>1, <1>2, <1>3, <1>4, <1>6 DEF Carried
  <2> QED BY <1>2, <1>4, <1>6, <2>1, CarriedOn DEF Carried
<1> QED BY <1>5, <1>6

LEMMA FollowedOn ==
    ASSUME NEW t \in Targets, NEW x \in Handles
    PROVE  /\ On(WithFollow(t, x), x) /\ WithFollow(t, x) # None
           /\ \A y : On(t, y) => On(WithFollow(t, x), y)
           /\ WithFollow(t, x) = t => On(t, x)
<1>1. On(WithFollow(t, x), x) /\ \A y : On(t, y) => On(WithFollow(t, x), y)
  BY DEF On, WithFollow
<1>2. WithFollow(t, x) # None
  BY Followed, ConfigAssumption
<1> QED BY <1>1, <1>2

(* An account of the registry whose file it has seen.                        *)
LEMMA SeenAccount ==
    ASSUME Inv, NEW h \in Handlers, Asked(h), NEW f \in Names \ unseen, regA[f] # None
    PROVE  /\ files[f] # None /\ files[f].group = regA[f].group
           /\ regA[f].group \notin unseen => regA[f] = Grouped(files[f], groups)
<1>1. ~Unlinking(f)
  BY NobodyUnlinks DEF Asked
<1>2. files[f] # None
  BY <1>1 DEF Inv, Same, Grouped
<1>3. files[f].group = regA[f].group
  BY <1>2 DEF Inv, Taken
<1> QED BY <1>1, <1>2, <1>3 DEF Inv, Same

LEMMA CarriedByFollow ==
    ASSUME Lasts, Inv', NEW h \in Handlers, Follow(h)
    PROVE  Carrying'
<1>1. PICK f \in Names, x \in Handles :
          /\ Asked(h) /\ regA[f] # None /\ Known(regG, regA[f].group)
          /\ IF regA[f].group = None THEN FollowOwn(f, x) ELSE FollowInGroup(regA[f].group, x)
          /\ Answered(f, x)
  BY DEF Follow
<1>2. \A q \in followed' \ followed :
          q = <<f, x>> /\ LoadsNow /\ f \notin unseen /\ regA[f].group \notin unseen
  BY <1>1 DEF Answered
<1>3. regA[f] \in Accounts /\ regA[f].targets \in Targets /\ groups = regG /\ Inv
  BY <1>1, Registered DEF Lasts, Inv, Shape, Accounts
<1>4. SUFFICES ASSUME NEW e \in Names, NEW y \in Handles, <<e, y>> \in followed' PROVE Carried(e, y)'
  BY DEF Carrying
<1>5. <<e, y>> \in followed => Carried(e, y)
  BY DEF Lasts, Carrying
<1>6. <<e, y>> \notin followed =>
          /\ e = f /\ y = x /\ LoadsNow /\ f \notin unseen /\ regA[f].group \notin unseen
          /\ files[f] # None /\ files[f].group = regA[f].group
          /\ regA[f] = Grouped(files[f], groups)
  BY <1>1, <1>2, <1>3, <1>4, SeenAccount
<1>7. files' \in Configs /\ groups' \in GroupFiles
  BY DEF Inv, Shape, TypeOK, Configs, GroupFiles
<1>8. CASE UNCHANGED <<disk, registry, pc, my, byHand, spoilt>> /\ regA[f].group = None
                /\ WithFollow(regA[f].targets, x) = regA[f].targets
  <2>1. Carried(e, y)
    <3>1. CASE <<e, y>> \notin followed
      <4>1. regA[f] = files[f] /\ On(regA[f].targets, x)
        BY <1>3, <1>6, <1>8, <3>1, FollowedOn DEF Grouped
      <4> QED BY <1>1, <1>3, <1>6, <1>8, <3>1, <4>1 DEF Carried
    <3> QED BY <1>5, <3>1
  <2> QED BY <1>8, <2>1 DEF Carried, disk, registry
<1>9. CASE UNCHANGED <<disk, registry, pc, my, byHand, spoilt>> /\ regA[f].group # None
                /\ WithFollow(regG[regA[f].group], x) = regG[regA[f].group]
  <2>1. Carried(e, y)
    <3>1. CASE <<e, y>> \notin followed
      <4>1. regG[regA[f].group] \in Targets
        BY <1>1, <1>3, <1>9, Registered DEF Known
      <4>2. On(groups[files[f].group], x)
        BY <1>3, <1>6, <1>9, <3>1, <4>1, FollowedOn
      <4> QED BY <1>1, <1>3, <1>6, <1>9, <3>1, <4>2 DEF Carried
    <3> QED BY <1>5, <3>1
  <2> QED BY <1>9, <2>1 DEF Carried, disk, registry
<1>10. CASE regA[f].group = None /\ WritesAccount(f, [regA[f] EXCEPT !.targets = WithFollow(@, x)])
  <2> DEFINE r == [regA[f] EXCEPT !.targets = WithFollow(@, x)]
  <2>1. /\ r \in Accounts /\ r # None /\ r.group = None
        /\ r.targets = WithFollow(regA[f].targets, x)
    BY <1>3, <1>10, Followed, ConfigAssumption DEF Accounts
  <2>2. /\ files'[f] = r /\ groups' = groups /\ Reloads({f})
        /\ \A k \in Names \ {f} : files'[k] = files[k]
    BY <1>10 DEF WritesAccount, Lasts, Inv, Shape, TypeOK
  <2>3. CASE <<e, y>> \notin followed
    <3>1. files'[f] # None /\ files'[f].group = None /\ On(files'[f].targets, x)
      BY <1>3, <2>1, <2>2, FollowedOn
    <3>2. Carried(f, x)'
      BY <1>6, <1>7, <2>2, <2>3, <3>1, CarriedByLoad
    <3> QED BY <1>6, <2>3, <3>2
  <2>4. CASE <<e, y>> \in followed /\ e # f
    BY <1>5, <2>2, <2>4, CarriedOn DEF Carried
  <2>5. CASE <<e, y>> \in followed /\ e = f
    <3>1. /\ Carried(f, y) /\ files'[f] # None /\ files'[f].group = files[f].group
          /\ files[f].group = None
      BY <1>5, <1>10, <2>1, <2>2, <2>5 DEF Carried
    <3>2. On(files'[f].targets, y)
      BY <1>3, <1>10, <2>1, <2>2, <3>1, FollowedOn DEF Carried
    <3> QED BY <2>2, <2>5, <3>1, <3>2, CarriedOn
  <2> QED BY <2>3, <2>4, <2>5
<1>11. CASE regA[f].group # None /\ WritesGroup(regA[f].group, WithFollow(regG[regA[f].group], x))
  <2> DEFINE g == regA[f].group
  <2>1. g \in Groups /\ regG[g] \in Targets
    BY <1>1, <1>11, <1>3, Registered DEF Known
  <2>2. /\ files' = files /\ groups' = [groups EXCEPT ![g] = WithFollow(groups[g], x)]
        /\ Reloads({g}) /\ groups \in GroupFiles
    BY <1>3, <1>11 DEF WritesGroup, Lasts, Inv, Shape, TypeOK, GroupFiles
  <2>3. /\ groups'[g] = WithFollow(groups[g], x) /\ groups'[g] # None
        /\ \A k \in Groups \ {g} : groups'[k] = groups[k]
    BY <1>3, <2>1, <2>2, FollowedOn DEF GroupFiles
  <2>4. CASE <<e, y>> \notin followed
    <3>1. files'[f] # None /\ files'[f].group = g /\ On(groups'[g], x)
      BY <1>3, <1>6, <2>1, <2>2, <2>3, <2>4, FollowedOn
    <3> QED BY <1>6, <1>7, <1>11, <2>2, <2>4, <3>1, CarriedByLoad
  <2>5. CASE <<e, y>> \in followed
    <3>1. Carried(e, y) /\ files[e] # None
      BY <1>5, <2>5 DEF Carried
    <3>2. files[e].group # None => /\ files[e].group \in Groups
                                   /\ On(groups[files[e].group], y)
                                   /\ Known(groups, files[e].group)
      BY <3>1 DEF Carried, Known
    <3>3. files[e].group # None => On(groups'[files[e].group], y) /\ Known(groups', files[e].group)
      BY <1>3, <2>1, <2>3, <3>2, FollowedOn DEF Known
    <3>4. files[e].group = None => On(files'[e].targets, y)
      BY <2>2, <3>1 DEF Carried
    <3> QED BY <2>2, <3>1, <3>3, <3>4, CarriedOn
  <2> QED BY <2>4, <2>5
<1>12. CASE regA[f].group = None
  BY <1>1, <1>8, <1>10, <1>12 DEF FollowOwn
<1>13. CASE regA[f].group # None
  BY <1>1, <1>9, <1>11, <1>13 DEF FollowInGroup
<1> QED BY <1>12, <1>13

(* The files and groups stay, the registry reloads.                          *)
LEMMA CarriedByReload ==
    ASSUME Lasts, Inv', NEW names, Reloads(names), UNCHANGED <<files, groups, followed>>
    PROVE  Carrying'
<1>1. SUFFICES ASSUME NEW f \in Names, NEW x \in Handles, <<f, x>> \in followed PROVE Carried(f, x)'
  BY DEF Carrying
<1>2. Carried(f, x) /\ files[f] # None
  BY <1>1 DEF Lasts, Carrying, Carried
<1>3. files[f].group # None => On(groups[files[f].group], x) /\ Known(groups, files[f].group)
  BY <1>2 DEF Carried
<1>4. files' = files /\ groups' = groups
  OBVIOUS
<1>5. files[f].group = None => On(files[f].targets, x)
  BY <1>2 DEF Carried
<1> QED BY <1>2, <1>3, <1>4, <1>5, CarriedOn

LEMMA CarriedByImport ==
    ASSUME Lasts, Inv', NEW h \in Handlers, ImportConfig(h)
    PROVE  Carrying'
<1> DEFINE f == my[h].file
<1>1. PICK r :
          /\ pc[h] = "import" /\ files' = [files EXCEPT ![f] = r]
          /\ groups' = groups /\ followed' = followed /\ Reloads({f})
  BY DEF ImportConfig
<1>2. files[f] = None /\ f \in Names
  BY <1>1 DEF Lasts, Importing, Inv, Shape, Handed
<1>3. SUFFICES ASSUME NEW e \in Names, NEW x \in Handles, <<e, x>> \in followed PROVE Carried(e, x)'
  BY <1>1 DEF Carrying
<1>4. Carried(e, x) /\ e # f /\ files[e] # None
  BY <1>2, <1>3 DEF Lasts, Carrying, Carried
<1>5. files'[e] = files[e]
  BY <1>1, <1>4 DEF Lasts, Inv, Shape, TypeOK
<1>6. /\ files[e].group = None => On(files[e].targets, x)
      /\ files[e].group # None => On(groups[files[e].group], x) /\ Known(groups, files[e].group)
  BY <1>4 DEF Carried
<1> QED BY <1>1, <1>4, <1>5, <1>6, CarriedOn

(* The steps that load nothing: a file they unlink has no followed handle    *)
(* any more.                                                                 *)
LEMMA CarriedUnloaded ==
    ASSUME Lasts, NEW h \in Handlers,
           \/ DeleteAccount(h) \/ Import(h) \/ ImportKept(h) \/ ImportFailed(h)
           \/ Erase(h) \/ Undo(h)
    PROVE  Carrying'
<1>1. CASE DeleteAccount(h) \/ Import(h) \/ ImportKept(h) \/ ImportFailed(h)
  BY <1>1, CarriedStill DEF DeleteAccount, Import, ImportKept, ImportFailed, disk, registry
<1>2. CASE Erase(h) \/ Undo(h)
  <2>1. /\ files' = [files EXCEPT ![my[h].file] = None] /\ groups' = groups /\ regA' = regA
        /\ followed' = {p \in followed : p[1] \notin {my[h].file}}
    BY <1>2 DEF Erase, Undo, UnlinksConfig, Forget, registry
  <2>2. \A f \in Names \ {my[h].file} : files'[f] = files[f]
    BY <2>1 DEF Lasts, Inv, Shape, TypeOK
  <2> QED BY <2>1, <2>2, CarriedStill
<1> QED BY <1>1, <1>2

LEMMA CarriedByHand ==
    ASSUME Lasts, EditByHand
    PROVE  Carrying'
<1>1. PICK g \in Names, r \in Payloads :
          /\ files' = [files EXCEPT ![g] = r] /\ groups' = groups /\ regA' = regA
          /\ followed' = {p \in followed : p[1] \notin {g}}
  BY DEF EditByHand, Forget
<1>2. \A f \in Names \ {g} : files'[f] = files[f]
  BY <1>1 DEF Lasts, Inv, Shape, TypeOK
<1> QED BY <1>1, <1>2, CarriedStill

(* A handler that moves finds the others awaiting something.                 *)
LEMMA OthersAwait ==
    ASSUME Inv, NEW h \in Handlers, Requests(h) \/ Continues(h)
    PROVE  \A o \in Handlers \ {h} : pc[o] \in Awaiting
<1>1. Turn(h) \/ pc[h] \in {"unlink", "import", "undo", "undoCookie"}
  <2>1. CASE Requests(h)
    BY <2>1 DEF Requests, Reload, CreateGroup, UpdateGroup, DeleteGroup, EditAccount, SwitchMode,
       Follow, DeleteAccount, Import, Asked
  <2>2. CASE Continues(h)
    BY <2>2 DEF Continues, Erase, Unlink, Undo, UndoCookie, ImportConfig, ImportKept, ImportFailed
  <2> QED BY <2>1, <2>2
<1>2. CASE Turn(h)
  BY <1>2 DEF Turn
<1>3. CASE pc[h] \in {"unlink", "import", "undo", "undoCookie"}
  BY <1>3 DEF Inv, OneBetweenAwaits, Awaiting
<1> QED BY <1>1, <1>2, <1>3

LEMMA ImportingKept ==
    ASSUME Lasts, [Next]_vars
    PROVE  Importing'
<1>1. /\ pc \in [Handlers -> Places]
      /\ my \in [Handlers -> [file : Names \union {None}, cookie : Names \union {None}]]
  BY DEF Lasts, Inv, Shape, TypeOK
<1>2. CASE EditByHand
  BY <1>2 DEF EditByHand, Importing, Awaiting
<1>3. ASSUME NEW h \in Handlers, Requests(h) \/ Continues(h) PROVE Importing'
  <2>1. \A o \in Handlers \ {h} : pc[o] # "import"
    BY <1>3, OthersAwait DEF Lasts, Awaiting
  <2>2. CASE Import(h)
    BY <1>1, <2>1, <2>2 DEF Import, Goes, Importing
  <2>3. CASE ~Import(h)
    <3>1. \/ UNCHANGED pc /\ pc[h] # "import"
          \/ \E place \in Places \ {"import"} : pc' = [pc EXCEPT ![h] = place]
      <4>1. CASE Reload(h) \/ CreateGroup(h) \/ UpdateGroup(h) \/ DeleteGroup(h)
        BY <4>1 DEF Reload, CreateGroup, UpdateGroup, DeleteGroup, WritesGroup, Asked
      <4>2. CASE EditAccount(h) \/ SwitchMode(h) \/ Follow(h)
        BY <4>2 DEF EditAccount, SwitchMode, Follow, FollowOwn, FollowInGroup, WritesAccount,
           WritesGroup, Asked
      <4>3. CASE DeleteAccount(h) \/ ImportConfig(h) \/ ImportKept(h) \/ ImportFailed(h)
        BY <4>3 DEF DeleteAccount, ImportConfig, ImportKept, ImportFailed, Goes, Places, Awaiting
      <4>4. CASE Erase(h) \/ Unlink(h) \/ Undo(h) \/ UndoCookie(h)
        BY <4>4 DEF Erase, Unlink, Undo, UndoCookie, Goes, Places, Awaiting
      <4> QED BY <1>3, <2>3, <4>1, <4>2, <4>3, <4>4 DEF Requests, Continues
    <3> QED BY <1>1, <2>1, <3>1 DEF Importing
  <2> QED BY <2>2, <2>3
<1>4. CASE UNCHANGED vars
  BY <1>4 DEF vars, disk, Importing, Lasts
<1> QED BY <1>2, <1>3, <1>4 DEF Next

LEMMA CarryingKept ==
    ASSUME Lasts, Inv', [Next]_vars
    PROVE  Carrying'
<1>1. ASSUME NEW h \in Handlers, Requests(h) \/ Continues(h) PROVE Carrying'
  <2>1. CASE Reload(h)
    BY <2>1, CarriedByReload DEF Reload, disk
  <2>2. CASE CreateGroup(h) \/ UpdateGroup(h) \/ DeleteGroup(h)
    BY <2>2, CarriedByGroups
  <2>3. CASE EditAccount(h) \/ SwitchMode(h)
    BY <2>3, CarriedByEdits
  <2>4. CASE Follow(h)
    BY <2>4, CarriedByFollow
  <2>5. CASE Unlink(h) \/ UndoCookie(h)
    BY <2>5, CarriedByReload DEF Unlink, UndoCookie, UnlinksCookie
  <2>6. CASE ImportConfig(h)
    BY <2>6, CarriedByImport
  <2>7. CASE \/ DeleteAccount(h) \/ Import(h) \/ ImportKept(h) \/ ImportFailed(h)
             \/ Erase(h) \/ Undo(h)
    BY <2>7, CarriedUnloaded
  <2> QED BY <1>1, <2>1, <2>2, <2>3, <2>4, <2>5, <2>6, <2>7 DEF Requests, Continues
<1>2. CASE EditByHand
  BY <1>2, CarriedByHand
<1>3. CASE UNCHANGED vars
  BY <1>3, CarriedStill DEF vars, disk, registry
<1> QED BY <1>1, <1>2, <1>3 DEF Next

(* A handle followed on request stays among what the account fetches until   *)
(* its targets, or its group's, are edited.                                  *)
THEOREM FollowHolds == Spec => []FollowReaches
<1>1. Init => Lasts
  BY Initially DEF Init, Lasts, Carrying, Importing
<1>2. Lasts /\ [Next]_vars => Lasts'
  BY Inductive, ImportingKept, CarryingKept DEF Lasts
<1>3. Lasts => FollowReaches
  <2>1. SUFFICES ASSUME Lasts, NEW p \in followed PROVE
            /\ files[p[1]] # None
            /\ LET t == Grouped(files[p[1]], groups).targets IN t.on /\ p[2] \in t.follow
    BY DEF FollowReaches
  <2>2. p[1] \in Names /\ p[2] \in Handles /\ p = <<p[1], p[2]>>
    BY <2>1 DEF Lasts, Inv, Shape, TypeOK
  <2>3. Carried(p[1], p[2])
    BY <2>1, <2>2 DEF Lasts, Carrying
  <2>4. files[p[1]] \in Accounts
    BY <2>1, <2>2, <2>3 DEF Carried, Lasts, Inv, Shape, TypeOK
  <2>5. On(Grouped(files[p[1]], groups).targets, p[2])
    BY <2>3, <2>4 DEF Carried, Grouped, Accounts
  <2> QED BY <2>3, <2>5 DEF Carried, On
<1> QED BY <1>1, <1>2, <1>3, PTL DEF Spec
=============================================================================
