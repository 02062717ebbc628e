------------------------------ MODULE Profiles ------------------------------
(***************************************************************************)
(* One account's profile and privacy settings: ProfileService.Update and    *)
(* UpdatePrivacy read the view, apply a patch to it and save the row whole; *)
(* erasure anonymizes the account; each commit is followed by the           *)
(* invalidation of the cached user reads.  Public serves the profile        *)
(* through that cache and hides it per request.  Of the cache only its      *)
(* promise is used (module FreshReads): a read gets a view at least as new  *)
(* as the last one invalidated before the read began.                       *)
(***************************************************************************)
EXTENDS Integers, Sequences, SequencesExt

CONSTANTS
    ProfileCalls,   \* writing requests
    Visitors,       \* public reads
    MaxViews        \* bound: committed views of the account

ASSUME ProfileBounds == MaxViews \in Nat \ {0}

VARIABLES
    views,       \* the committed views, oldest first; the last is the database
    cacheFloor,  \* entries of older views than this are unreachable in the cache
    promised,    \* history: newest view whose writer returned after reaching Redis
    profileCall, \* call -> the write it is in
    privacyLog,  \* user.privacy.updated events
    visit        \* visitor -> the read it is in

profileVars == <<views, cacheFloor, promised, profileCall, privacyLog, visit>>

\* What the properties tell apart: how far the profile reaches (0 private, 1 unlisted,
\* 2 public), one of the flags, the marketing consent, and whether the account is active.
Reach == 0..2
Privacy == [reach : Reach, email : BOOLEAN]
ProfileView == [consent : BOOLEAN, privacy : Privacy, active : BOOLEAN]
DefaultView == [consent |-> FALSE, privacy |-> [reach |-> 2, email |-> FALSE], active |-> TRUE]

ProfileCall == [pc : {"idle", "profile", "privacy", "invalidate"}, read : ProfileView,
                next : ProfileView, proof : BOOLEAN, wrote : 0..MaxViews]
NoProfileCall == [pc |-> "idle", read |-> DefaultView, next |-> DefaultView, proof |-> FALSE, wrote |-> 0]
Visit == [pc : {"idle", "load", "shown", "hidden"}, owner : BOOLEAN, from : 0..MaxViews,
          since : 0..MaxViews]
NoVisit == [pc |-> "idle", owner |-> FALSE, from |-> 0, since |-> 0]

ProfilesTypeOK ==
    /\ views \in Seq(ProfileView) /\ Len(views) \in 1..MaxViews
    /\ {cacheFloor, promised} \subseteq 1..MaxViews
    /\ profileCall \in [ProfileCalls -> ProfileCall] /\ visit \in [Visitors -> Visit]
    /\ privacyLog \in Seq([before : Privacy, after : Privacy, proof : BOOLEAN])

ProfilesInit ==
    /\ views = <<DefaultView>> /\ cacheFloor = 1 /\ promised = 1 /\ privacyLog = <<>>
    /\ profileCall = [c \in ProfileCalls |-> NoProfileCall] /\ visit = [v \in Visitors |-> NoVisit]

CurrentView == Last(views)
Narrows(from, to) == to < from

\* The row as the statement stores it; columns of the other tables keep their committed value.
CommitView(c, view) ==
    /\ Len(views) < MaxViews /\ views' = Append(views, view)
    /\ profileCall' = [profileCall EXCEPT ![c] = [NoProfileCall EXCEPT
                          !.pc = "invalidate", !.wrote = Len(views) + 1]]

----------------------------------------------------------------------------
(* Writes. *)

\* What decodeProfilePatch makes of the body: the consent is given, taken back, or left alone by
\* a patch of other fields.
ProfilePatches == [{"consent"} -> BOOLEAN] \cup {<<>>}
\* applyPatch: a field the patch leaves out keeps the value that was read.
Patched(view, patch) == [f \in DOMAIN view |-> IF f \in DOMAIN patch THEN patch[f] ELSE view[f]]

\* Update: the view is read and the patch applied to it; an invalid or empty patch ends here.
UpdateProfile(c) ==
    /\ profileCall[c].pc = "idle"
    /\ \E patch \in ProfilePatches :
          profileCall' = [profileCall EXCEPT ![c] = [NoProfileCall EXCEPT !.pc = "profile",
              !.read = CurrentView, !.next = Patched(CurrentView, patch)]]
    /\ UNCHANGED <<views, cacheFloor, promised, privacyLog, visit>>

\* SaveProfile upserts the profile row.
SaveProfile(c) ==
    /\ profileCall[c].pc = "profile"
    /\ CommitView(c, [CurrentView EXCEPT !.consent = profileCall[c].next.consent])
    /\ UNCHANGED <<cacheFloor, promised, privacyLog, visit>>

ApplyPrivacy(privacy, patch) == [f \in DOMAIN privacy |-> IF f \in DOMAIN patch THEN patch[f] ELSE privacy[f]]
PrivacyPatches == [{"reach"} -> Reach] \cup [{"email"} -> BOOLEAN]

\* UpdatePrivacy: the settings are read and the patch applied; nothing changed ends the call, and
\* a narrower visibility needs the password.
UpdatePrivacy(c) ==
    /\ profileCall[c].pc = "idle"
    /\ \E patch \in PrivacyPatches, password \in BOOLEAN :
          LET next == ApplyPrivacy(CurrentView.privacy, patch)
              proof == Narrows(CurrentView.privacy.reach, next.reach)
          IN /\ next # CurrentView.privacy /\ (proof => password)
             /\ profileCall' = [profileCall EXCEPT ![c] = [NoProfileCall EXCEPT !.pc = "privacy",
                    !.read = CurrentView, !.next = [CurrentView EXCEPT !.privacy = next], !.proof = proof]]
    /\ UNCHANGED <<views, cacheFloor, promised, privacyLog, visit>>

\* SavePrivacy upserts the settings row and the event is recorded in the same transaction.
SavePrivacy(c) ==
    LET next == profileCall[c].next.privacy IN
    /\ profileCall[c].pc = "privacy"
    /\ CommitView(c, [CurrentView EXCEPT !.privacy = next])
    /\ privacyLog' = Append(privacyLog, [before |-> profileCall[c].read.privacy, after |-> next,
                                         proof |-> profileCall[c].proof])
    /\ UNCHANGED <<cacheFloor, promised, visit>>

\* EraseUser anonymizes the account: profile and settings rows go, the status becomes deleted.
EraseProfile(c) ==
    /\ profileCall[c].pc = "idle" /\ CurrentView.active
    /\ CommitView(c, [DefaultView EXCEPT !.active = FALSE])
    /\ UNCHANGED <<cacheFloor, promised, privacyLog, visit>>

\* The write fails: no account with the id, or the display name is taken.
ProfileCallFails(c) ==
    /\ profileCall[c].pc \in {"profile", "privacy"}
    /\ profileCall' = [profileCall EXCEPT ![c] = NoProfileCall]
    /\ UNCHANGED <<views, cacheFloor, promised, privacyLog, visit>>

NotInvalidated == cacheFloor
\* readcache.Invalidate(Users): every entry of a view committed before is unreachable.
Invalidated == Len(views)
InvalidateUsers(c) ==
    /\ profileCall[c].pc = "invalidate"
    /\ cacheFloor' = Invalidated
    /\ promised' = IF profileCall[c].wrote > promised THEN profileCall[c].wrote ELSE promised
    /\ profileCall' = [profileCall EXCEPT ![c] = NoProfileCall]
    /\ UNCHANGED <<views, privacyLog, visit>>

\* Redis cannot be reached, or the process dies: entries live on until their TTL.
InvalidateUsersFails(c) ==
    /\ profileCall[c].pc = "invalidate"
    /\ profileCall' = [profileCall EXCEPT ![c] = NoProfileCall]
    /\ UNCHANGED <<views, cacheFloor, promised, privacyLog, visit>>

----------------------------------------------------------------------------
(* Public reads. *)

BeginVisit(v) ==
    /\ visit[v].pc = "idle"
    /\ \E owner \in BOOLEAN :
          visit' = [visit EXCEPT ![v] = [pc |-> "load", owner |-> owner, from |-> cacheFloor,
                                         since |-> promised]]
    /\ UNCHANGED <<views, cacheFloor, promised, profileCall, privacyLog>>

\* Public's last check, on every request and after the cache: inactive accounts are hidden, and
\* private profiles from all but their owner (or a privileged viewer).
ShownTo(view, owner) == view.active /\ (view.privacy.reach > 0 \/ owner)

\* readcache.Through answers with the database's view or a cached one that was reachable
\* when the read began.
ServeProfile(v) ==
    /\ visit[v].pc = "load"
    /\ \E i \in visit[v].from..Len(views) :
          visit' = [visit EXCEPT ![v].pc = IF ShownTo(views[i], visit[v].owner) THEN "shown" ELSE "hidden"]
    /\ UNCHANGED <<views, cacheFloor, promised, profileCall, privacyLog>>

EndVisit(v) ==
    /\ visit[v].pc \in {"shown", "hidden"}
    /\ visit' = [visit EXCEPT ![v] = NoVisit]
    /\ UNCHANGED <<views, cacheFloor, promised, profileCall, privacyLog>>

ProfilesNext ==
    \/ \E c \in ProfileCalls : \/ UpdateProfile(c) \/ SaveProfile(c) \/ UpdatePrivacy(c) \/ SavePrivacy(c)
                               \/ EraseProfile(c) \/ ProfileCallFails(c)
                               \/ InvalidateUsers(c) \/ InvalidateUsersFails(c)
    \/ \E v \in Visitors : BeginVisit(v) \/ ServeProfile(v) \/ EndVisit(v)

ProfilesSpec == ProfilesInit /\ [][ProfilesNext]_profileVars

----------------------------------------------------------------------------
(* Properties. *)

\* A stranger is shown the profile only if some view of it since the last write that had
\* returned before the visit was visible: once UpdatePrivacy or the erasure has returned, a
\* hidden profile is not served from the cache (UpdatePrivacy, invalidate, Public).
HiddenStaysHidden ==
    \A v \in Visitors : visit[v].pc = "shown" =>
        \E i \in visit[v].since..Len(views) :
            views[i].active /\ (views[i].privacy.reach > 0 \/ visit[v].owner)

\* Profiles, their cache and their visitors agree (UpdatePrivacy, invalidate, Public).
ProfilesInvariant == ProfilesTypeOK /\ HiddenStaysHidden
=============================================================================
