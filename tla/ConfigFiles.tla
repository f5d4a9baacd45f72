---------------------------- MODULE ConfigFiles -----------------------------
(* The configuration on disk (accounts, groups and cookies, one file each),  *)
(* the API process's registry, which is what it last loaded, and the API's   *)
(* configuration requests (app/accounts/service.py, loader.py, registry.py). *)
(* The handlers of one asyncio process: from a request's guard to the end of *)
(* the registry's reload none of them yields, so a handler at such a place   *)
(* keeps the others out.  Two requests do yield: a delete before it unlinks, *)
(* an import before it may roll back.  The workers load the same files at    *)
(* any instant, also between two steps of such a handler.                    *)
EXTENDS Naturals

CONSTANTS Names,      \* ids of accounts; <name>.yaml and <name>.json are named after them
          Groups, Handles, Handlers,
          Edits,      \* the targets an edit may ask for
          MaxByHand,  \* bound: files edited by hand
          None

VARIABLES
    files,      \* name -> the account configuration in the file, or None
    cookies,    \* the cookie files there are
    groups,     \* group -> the targets in its file, or None
    regA, regG, \* the registry: file -> the account as loaded, or None; groups as loaded
    pc, my,     \* handler -> place, locals
    byHand,     \* files edited by hand so far
    unseen,     \* history: files and groups written by hand, or before a load that raised
    spoilt,     \* history: files a request left without a cookie or with another's id
    followed    \* history: <<file, handle>>, followed on request and not edited since

disk == <<files, cookies, groups>>
registry == <<regA, regG, unseen>>
vars == <<disk, registry, pc, my, byHand, spoilt, followed>>

Targets == [on : BOOLEAN, follow : SUBSET Handles]
Groupings == Groups \union {None}
Accounts == [id : Names, group : Groupings, cookie : Names, targets : Targets]
Payloads == [id : Names, group : Groupings, cookie : Names, targets : Edits]
ASSUME ConfigAssumption == Edits \subseteq Targets /\ None \notin Accounts \union Targets \union Groups

Awaiting == {"idle", "erase", "check"}
Places == Awaiting \union {"unlink", "import", "undo", "undoCookie"}
AtRest == [file |-> None, cookie |-> None]

Init ==
    /\ files = [f \in Names |-> None] /\ cookies = {} /\ groups = [g \in Groups |-> None]
    /\ regA = files /\ regG = groups
    /\ pc = [h \in Handlers |-> "idle"] /\ my = [h \in Handlers |-> AtRest]
    /\ byHand = 0 /\ unseen = {} /\ spoilt = {} /\ followed = {}

-----------------------------------------------------------------------------
Known(gs, g) == g \in {None} \union {k \in Groups : gs[k] # None}
Members(fs, g) == {f \in Names : fs[f] # None /\ fs[f].group = g}
Named(c) == {f \in Names : files[f] # None /\ files[f].cookie = c}
Sharing(f, id) == {e \in Names \ {f} : files[e] # None /\ files[e].id = id}

(* What load_all makes of one file: apply_group replaces the targets.        *)
Grouped(r, gs) == IF r = None \/ r.group = None THEN r
                  ELSE [r EXCEPT !.targets = gs[r.group]]
(* Otherwise load_all raises.                                                *)
Loads(fs, cs, gs) ==
    /\ \A f \in Names : fs[f] # None => Known(gs, fs[f].group) /\ fs[f].cookie \in cs
    /\ \A e, f \in Names : fs[e] # None /\ fs[f] # None /\ fs[e].id = fs[f].id => e = f

(* _targets_payload_with_follow_target.                                      *)
WithFollow(t, x) == [on |-> TRUE, follow |-> t.follow \union {x}]

(* No other handler is between two awaits.                                   *)
Turn(h) == \A o \in Handlers \ {h} : pc[o] \in Awaiting
Asked(h) == pc[h] = "idle" /\ Turn(h)
Goes(h, place, m) == pc' = [pc EXCEPT ![h] = place] /\ my' = [my EXCEPT ![h] = m]
Forget(fs) == followed' = {p \in followed : p[1] \notin fs}

(* AccountRegistry.reload, once names were written: the groups are in place  *)
(* before the accounts are loaded, the accounts only if none of them raised. *)
LoadsNow == Loads(files', cookies', groups')
Reloads(names) ==
    /\ regG' = groups'
    /\ IF LoadsNow
       THEN regA' = [f \in Names |-> Grouped(files'[f], groups')] /\ unseen' = {}
       ELSE regA' = regA /\ unseen' = unseen \union names

(* POST /reload.                                                             *)
Reload(h) ==
    /\ Asked(h)
    /\ UNCHANGED <<disk, pc, my, byHand, spoilt, followed>>
    /\ Reloads({})

-----------------------------------------------------------------------------
(* A group's file is written or unlinked, and the request reloads.           *)
WritesGroup(g, t) ==
    /\ groups' = [groups EXCEPT ![g] = t]
    /\ UNCHANGED <<files, cookies, pc, my, byHand, spoilt>>
    /\ Reloads({g})

CreateGroup(h) == \E g \in Groups, t \in Edits :
    /\ Asked(h) /\ regG[g] = None
    /\ WritesGroup(g, t) /\ UNCHANGED followed

UpdateGroup(h) == \E g \in Groups, t \in Edits :
    /\ Asked(h) /\ regG[g] # None
    /\ WritesGroup(g, t) /\ Forget(Members(files, g))

(* Faulty: a group goes whoever still belongs to it.                         *)
DeleteGroupUnchecked(h) == \E g \in Groups :
    /\ Asked(h) /\ regG[g] # None
    /\ WritesGroup(g, None) /\ UNCHANGED followed
DeleteGroup(h) == \E g \in Groups :
    /\ Asked(h) /\ regG[g] # None /\ Members(regA, g) = {}
    /\ WritesGroup(g, None) /\ UNCHANGED followed

-----------------------------------------------------------------------------
(* An account's file is written, and the request reloads.                    *)
WritesAccount(f, r) ==
    /\ files' = [files EXCEPT ![f] = r]
    /\ spoilt' = IF Sharing(f, r.id) # {} THEN spoilt \union {f}
                 ELSE IF r.cookie \in cookies THEN spoilt \ {f} ELSE spoilt
    /\ UNCHANGED <<cookies, groups, pc, my, byHand>>
    /\ Reloads({f})

(* update_account_config checks the group and the cookie, not the id.        *)
EditAccount(h) == \E f \in Names, r \in Payloads :
    /\ Asked(h) /\ regA[f] # None
    /\ Known(regG, r.group) /\ r.cookie \in cookies
    /\ WritesAccount(f, r) /\ Forget({f})

(* update_account_execution_mode writes the registry's account back, the     *)
(* targets of its group included.                                            *)
SwitchMode(h) == \E f \in Names :
    /\ Asked(h) /\ regA[f] # None
    /\ WritesAccount(f, regA[f]) /\ UNCHANGED followed

(* ensure_follow_target: to the group's targets or to the account's own,     *)
(* through their update, unless they have the handle already.                *)
FollowOwn(f, x) ==
    LET t == WithFollow(regA[f].targets, x)
    IN  IF t = regA[f].targets
        THEN UNCHANGED <<disk, registry, pc, my, byHand, spoilt>>
        ELSE /\ regA[f].cookie \in cookies
             /\ WritesAccount(f, [regA[f] EXCEPT !.targets = t])
FollowInGroup(g, x) ==
    LET t == WithFollow(regG[g], x)
    IN  IF t = regG[g]
        THEN UNCHANGED <<disk, registry, pc, my, byHand, spoilt>>
        ELSE WritesGroup(g, t)
Answered(f, x) ==
    followed' = IF LoadsNow /\ unseen \intersect {f, regA[f].group} = {}
                THEN followed \union {<<f, x>>} ELSE followed

(* Faulty: the handle goes to the account's own targets, group or not.       *)
FollowUngrouped(h) == \E f \in Names, x \in Handles :
    /\ Asked(h) /\ regA[f] # None
    /\ FollowOwn(f, x) /\ Answered(f, x)
Follow(h) == \E f \in Names, x \in Handles :
    /\ Asked(h) /\ regA[f] # None /\ Known(regG, regA[f].group)
    /\ IF regA[f].group = None THEN FollowOwn(f, x) ELSE FollowInGroup(regA[f].group, x)
    /\ Answered(f, x)

-----------------------------------------------------------------------------
UnlinksConfig(f) ==
    /\ files' = [files EXCEPT ![f] = None] /\ spoilt' = spoilt \ {f} /\ Forget({f})
    /\ UNCHANGED <<cookies, groups, registry, byHand>>
(* The other accounts that name the cookie lose it.                          *)
UnlinksCookie(h) ==
    /\ cookies' = cookies \ {my[h].cookie}
    /\ spoilt' = spoilt \union (Named(my[h].cookie) \ {my[h].file})
    /\ UNCHANGED <<files, groups, byHand, followed>>

(* delete_account: the paths are read, then the account's rows are deleted.  *)
DeleteAccount(h) == \E f \in Names :
    /\ Asked(h) /\ regA[f] # None
    /\ Goes(h, "erase", [file |-> f, cookie |-> regA[f].cookie])
    /\ UNCHANGED <<disk, registry, byHand, spoilt, followed>>

Erase(h) ==
    /\ pc[h] = "erase" /\ Turn(h)
    /\ UnlinksConfig(my[h].file) /\ Goes(h, "unlink", my[h])
Unlink(h) ==
    /\ pc[h] = "unlink"
    /\ UnlinksCookie(h) /\ Goes(h, "idle", AtRest)
    /\ Reloads({my[h].file})

-----------------------------------------------------------------------------
(* import_account_from_cookie: the guards, and the cookie's file.            *)
Import(h) == \E f \in Names :
    /\ Asked(h)
    /\ \A e \in Names : regA[e] # None => regA[e].id # f
    /\ f \notin cookies /\ files[f] = None
    /\ cookies' = cookies \union {f}
    /\ Goes(h, "import", [file |-> f, cookie |-> f])
    /\ UNCHANGED <<files, groups, registry, byHand, spoilt, followed>>

(* The configuration, with whatever group the extra YAML says, and the load. *)
ImportConfig(h) == \E g \in Groupings, t \in Edits :
    LET f == my[h].file
    IN  /\ pc[h] = "import"
        /\ files' = [files EXCEPT ![f] = [id |-> f, group |-> g, cookie |-> f, targets |-> t]]
        /\ UNCHANGED <<cookies, groups, byHand, spoilt, followed>>
        /\ Reloads({f})
        /\ Goes(h, IF LoadsNow THEN "check" ELSE "undo", my[h])

(* The session is validated and the account read back; either may raise.     *)
ImportKept(h) ==
    /\ pc[h] = "check" /\ Turn(h)
    /\ \E e \in Names : regA[e] # None /\ regA[e].id = my[h].file
    /\ Goes(h, "idle", AtRest)
    /\ UNCHANGED <<disk, registry, byHand, spoilt, followed>>
ImportFailed(h) ==
    /\ pc[h] = "check" /\ Turn(h)
    /\ Goes(h, "undo", my[h])
    /\ UNCHANGED <<disk, registry, byHand, spoilt, followed>>

Undo(h) ==
    /\ pc[h] = "undo"
    /\ UnlinksConfig(my[h].file) /\ Goes(h, "undoCookie", my[h])
(* Faulty: the files go, the registry keeps the account.                     *)
UndoUnloaded(h) ==
    /\ pc[h] = "undoCookie"
    /\ UnlinksCookie(h) /\ Goes(h, "idle", AtRest) /\ UNCHANGED registry
UndoCookie(h) ==
    /\ pc[h] = "undoCookie"
    /\ UnlinksCookie(h) /\ Goes(h, "idle", AtRest)
    /\ Reloads({my[h].file})

-----------------------------------------------------------------------------
(* A configuration file is edited by hand, so that the directory loads,      *)
(* while every handler awaits something; nothing tells the registry.         *)
EditByHand == \E f \in Names, r \in Payloads :
    /\ byHand < MaxByHand /\ byHand' = byHand + 1
    /\ \A h \in Handlers : pc[h] \in Awaiting
    /\ files[f] # None /\ r # files[f]
    /\ files' = [files EXCEPT ![f] = r] /\ Loads(files', cookies, groups)
    /\ unseen' = unseen \union {f} /\ Forget({f})
    /\ UNCHANGED <<cookies, groups, regA, regG, pc, my, spoilt>>

Requests(h) ==
    \/ Reload(h) \/ CreateGroup(h) \/ UpdateGroup(h) \/ DeleteGroup(h)
    \/ EditAccount(h) \/ SwitchMode(h) \/ Follow(h) \/ DeleteAccount(h) \/ Import(h)
Continues(h) ==
    \/ Erase(h) \/ Unlink(h) \/ Undo(h) \/ UndoCookie(h)
    \/ ImportConfig(h) \/ ImportKept(h) \/ ImportFailed(h)

Next == EditByHand \/ \E h \in Handlers : Requests(h) \/ Continues(h)

Spec == Init /\ [][Next]_vars

-----------------------------------------------------------------------------
TypeOK ==
    /\ files \in [Names -> Accounts \union {None}] /\ regA \in [Names -> Accounts \union {None}]
    /\ groups \in [Groups -> Targets \union {None}] /\ regG \in [Groups -> Targets \union {None}]
    /\ cookies \subseteq Names
    /\ pc \in [Handlers -> Places]
    /\ my \in [Handlers -> [file : Names \union {None}, cookie : Names \union {None}]]
    /\ unseen \subseteq Names \union Groups /\ spoilt \subseteq Names
    /\ followed \subseteq Names \X Handles

(* The files whose content the registry has seen.                            *)
Seen == {f \in Names \ (unseen \union spoilt) : files[f] # None}

(* At every instant, also halfway through a request, no file the registry    *)
(* has seen makes a load raise: its group is there, so is its cookie, and    *)
(* its id is its own.  The workers' sweep catches nothing, so a load that    *)
(* raises ends the worker.  The member check of delete_group_config, the     *)
(* order of delete_account's unlinks, the cookie check of                    *)
(* update_account_config and the import's guards and rollback each hold up a *)
(* part of it.                                                               *)
Loadable ==
    /\ \A f \in Seen : Known(groups, files[f].group) /\ files[f].cookie \in cookies
    /\ \A e, f \in Seen : files[e].id = files[f].id => e = f

(* Between requests the registry is what a load would give, for everything   *)
(* but the files edited by hand and those a failed load has not taken in;    *)
(* requests roll back, delete and interleave in their awaits meanwhile.      *)
RegistryIsDirectory ==
    (\A h \in Handlers : pc[h] \in Awaiting) =>
        /\ regG = groups
        /\ \A f \in Names \ unseen :
               \/ files[f] # None /\ files[f].group \in unseen
               \/ regA[f] = Grouped(files[f], groups)

(* A handle followed on request stays among what the account fetches until   *)
(* the account's or its group's targets are edited: other requests, a switch *)
(* of the mode (which writes the account back with the group's targets) and  *)
(* an import's rollback leave it.  A follow that answered "already" counts.  *)
FollowReaches == \A p \in followed :
    /\ files[p[1]] # None
    /\ LET t == Grouped(files[p[1]], groups).targets IN t.on /\ p[2] \in t.follow
=============================================================================
