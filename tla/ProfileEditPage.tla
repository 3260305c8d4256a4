--------------------------- MODULE ProfileEditPage ---------------------------
(***************************************************************************)
(* The form a user edits their profile with, and what the gateway and the  *)
(* user service make of it.                                                *)
(*                                                                         *)
(* The name stands for every text field of the profile, "mine" and         *)
(* "theirs" for the teaching skills of the user and of another.            *)
(***************************************************************************)
EXTENDS WebPage

CONSTANTS
  Names,
  MaxSaves, MaxEdits    \* bounds on saves, and on edits of the form

\* The profile of another user, whose URL may be opened.
Theirs == [name |-> "theirs", avatar |-> "theirs", mentor |-> TRUE, student |-> FALSE,
           skills |-> {"theirs"}, learning |-> FALSE]

(***************************************************************************)
(* The update of a profile: one transaction of the user service.           *)
(***************************************************************************)

\* A field that is not sent; a list that is not sent is <<>>, one that is <<list>>.
Unset == "unset"
Field(sent, old) == IF sent = Unset THEN old ELSE sent

UpdateProfileUser(row, u) == [row EXCEPT !.name = Field(u.name, @), !.avatar = Field(u.avatar, @)]

\* The row is created if it is missing; no update removes it.
UpdateOrCreateMentor(row, u) == IF u.mentor THEN [row EXCEPT !.mentor = TRUE] ELSE row
UpdateOrCreateStudent(row, u) == IF u.student THEN [row EXCEPT !.student = TRUE] ELSE row

\* Mutant: the old skills are not deleted.
UpdateTeachingSkillsAdds(row, u) ==
  IF u.teaches = <<>> THEN row ELSE [row EXCEPT !.mentor = TRUE, !.skills = @ \union Head(u.teaches)]

\* A list of skills, empty or not, makes its owner a mentor or a student.
UpdateTeachingSkills(row, u) ==
  IF u.teaches = <<>> THEN row ELSE [row EXCEPT !.mentor = TRUE, !.skills = Head(u.teaches)]
UpdateLearningSkills(row, u) ==
  IF u.learns = <<>> THEN row ELSE [row EXCEPT !.student = TRUE, !.learning = Head(u.learns) # {}]

UpdateProfile(row, u) ==
  UpdateTeachingSkills(
    UpdateLearningSkills(
      UpdateOrCreateStudent(UpdateOrCreateMentor(UpdateProfileUser(row, u), u), u), u), u)

\* The gateway passes on both lists whether or not the page sent them.
GatewaySends(u) == [u EXCEPT !.learns = <<{}>>, !.teaches = IF @ = <<>> THEN <<{}>> ELSE @]

\* A picture is uploaded without them.
OnlyAvatar(avatar) ==
  [name |-> Unset, avatar |-> avatar, mentor |-> FALSE, student |-> FALSE, teaches |-> <<>>, learns |-> <<>>]

(***************************************************************************)
(* The screen.  An error replaces the form for good.                       *)
(***************************************************************************)

Open == ~page.loading /\ ~page.error /\ page.loaded # None /\ ~page.left
CanPress == Open /\ ~page.saving /\ ~page.uploading

Blank == [name |-> None, avatar |-> None, mentor |-> FALSE, student |-> FALSE, skills |-> {}]

\* The state of a page that was left is lost.
Gone == [page EXCEPT !.form = Blank, !.loaded = None, !.timers = 0, !.edits = 0, !.left = TRUE]

(***************************************************************************)
(* Requests.                                                               *)
(***************************************************************************)

Request(kind, of, form, update) ==
  [kind |-> kind, of |-> of, form |-> form, update |-> update, row |-> Theirs, stage |-> "sent"]
Load(of) == Request("load", of, None, None)

Answers(c) ==
  /\ c.stage = "sent"
  /\ \/ /\ c.kind = "load"
        /\ Turn(c, [c EXCEPT !.stage = "done", !.row = IF c.of = "own" THEN server.own ELSE Theirs])
        /\ UNCHANGED server
     \/ /\ c.kind \in {"save", "upload"}
        /\ Turn(c, [c EXCEPT !.stage = "done"])
        /\ server' = [server EXCEPT !.own = UpdateProfile(@, c.update)]
  /\ UNCHANGED <<page, seen>>

\* Another tab changes the profile.
OthersChange ==
  /\ server.trouble < MaxTrouble
  /\ \E n \in Names : server' = [server EXCEPT !.own.name = n, !.trouble = @ + 1]
  /\ Saw({"changed"})
  /\ UNCHANGED <<page, calls>>

(***************************************************************************)
(* Loading.                                                                *)
(***************************************************************************)

\* Mutant: a role, once ticked, stays ticked.
LoadedKeepsRole(c) ==
  /\ c.kind = "load" /\ c.stage = "done"
  /\ page' = [page EXCEPT
       !.loaded = [name |-> c.row.name, avatar |-> c.row.avatar, mentor |-> c.row.mentor, student |-> c.row.student],
       !.form = [name |-> c.row.name, avatar |-> c.row.avatar, mentor |-> @.mentor \/ c.row.mentor, student |-> c.row.student,
                 skills |-> IF c.row.skills # {} THEN c.row.skills ELSE @.skills],
       !.loading = FALSE, !.dirty = FALSE]
  /\ Saw(If(c.of # "own" /\ Of({"load"}) \ {c} = {}, "overtaken")
         \union If(c.row.skills = {} /\ page.form.skills # {}, "kept"))
  /\ End(c)
  /\ UNCHANGED server

\* The form takes over the profile, but no empty list of skills.
Loaded(c) ==
  /\ c.kind = "load" /\ c.stage = "done"
  /\ page' = [page EXCEPT
       !.loaded = [name |-> c.row.name, avatar |-> c.row.avatar, mentor |-> c.row.mentor, student |-> c.row.student],
       !.form = [name |-> c.row.name, avatar |-> c.row.avatar, mentor |-> c.row.mentor, student |-> c.row.student,
                 skills |-> IF c.row.skills # {} THEN c.row.skills ELSE @.skills],
       !.loading = FALSE, !.dirty = FALSE]
  /\ Saw(If(c.of # "own" /\ Of({"load"}) \ {c} = {}, "overtaken")
         \union If(c.row.skills = {} /\ page.form.skills # {}, "kept"))
  /\ End(c)
  /\ UNCHANGED server

\* Any request may fail, before or after the server acted.
LoadFails(c) ==
  /\ c.kind = "load"
  /\ Trouble(TRUE) /\ End(c)
  /\ page' = [page EXCEPT !.loading = FALSE, !.error = TRUE]
  /\ UNCHANGED seen

(***************************************************************************)
(* The form.                                                               *)
(***************************************************************************)

\* Used while another load is still to answer.
Early == If(Of({"load"}) # {}, "overtaken")

EditForm(form) ==
  /\ Open /\ page.edits < MaxEdits
  /\ page' = [page EXCEPT !.form = form, !.dirty = TRUE, !.edits = @ + 1]
  /\ UNCHANGED <<server, calls, seen>>

Edit ==
  \/ \E n \in Names : EditForm([page.form EXCEPT !.name = n])
  \/ EditForm([page.form EXCEPT !.mentor = ~@])
  \/ EditForm([page.form EXCEPT !.student = ~@])
  \/ /\ page.form.mentor
     /\ \/ EditForm([page.form EXCEPT !.skills = @ \union {"mine"}])
        \/ \E k \in page.form.skills : EditForm([page.form EXCEPT !.skills = @ \ {k}])

\* A skill without a name is an error, and the form is gone.
AddNamelessSkill ==
  /\ Open /\ page.form.mentor
  /\ page' = [page EXCEPT !.error = TRUE]
  /\ UNCHANGED <<server, calls, seen>>

ChooseAvatar ==
  /\ CanPress
  /\ Send(Request("upload", "own", None, OnlyAvatar("new")))
  /\ page' = [page EXCEPT !.uploading = TRUE]
  /\ Saw(Early)
  /\ UNCHANGED server

AvatarUploaded(c) ==
  /\ c.kind = "upload" /\ c.stage = "done"
  /\ page' = [page EXCEPT !.form.avatar = "new", !.loaded.avatar = "new", !.uploading = FALSE, !.dirty = TRUE]
  /\ End(c)
  /\ UNCHANGED <<server, seen>>

AvatarFails(c) ==
  /\ c.kind = "upload"
  /\ Trouble(TRUE) /\ End(c)
  /\ page' = [page EXCEPT !.uploading = FALSE, !.error = TRUE]
  /\ UNCHANGED seen

\* The form has no picture, the profile "null": the save will see a change.
RemoveAvatar ==
  /\ CanPress /\ page.form.avatar # None
  /\ page' = [page EXCEPT !.form.avatar = None, !.loaded.avatar = "null", !.dirty = TRUE]
  /\ Saw({"removed"})
  /\ UNCHANGED <<server, calls>>

Cancel ==
  /\ CanPress
  /\ page' = Gone
  /\ UNCHANGED <<server, calls, seen>>

(***************************************************************************)
(* Saving: the fields that differ from those that were loaded.             *)
(***************************************************************************)

Changed(new, old) == IF new # old THEN new ELSE Unset

Update ==
  [name |-> Changed(page.form.name, page.loaded.name), avatar |-> Changed(page.form.avatar, page.loaded.avatar),
   mentor |-> page.form.mentor \/ page.loaded.mentor, student |-> page.form.student \/ page.loaded.student,
   teaches |-> IF page.form.mentor /\ page.form.skills # {} THEN <<page.form.skills>> ELSE <<>>, learns |-> <<>>]

\* What was loaded is still what a second save is compared with.
Submit ==
  /\ CanPress /\ page.saves < MaxSaves
  /\ Send(Request("save", "own", page.form, GatewaySends(Update)))
  /\ page' = [page EXCEPT !.saving = TRUE, !.success = FALSE, !.dirty = FALSE, !.saves = @ + 1]
  /\ Saw(If(page.saves > 0, "again") \union Early)
  /\ UNCHANGED server

\* Mutant: the signed-in user keeps the old name.
SavedForServer(c) ==
  /\ c.kind = "save" /\ c.stage = "done"
  /\ page' = [page EXCEPT !.saving = FALSE, !.success = TRUE, !.timers = @ + 1]
  /\ End(c)
  /\ UNCHANGED <<server, seen>>

\* The signed-in user gets the new name and picture, but never loses a picture.
Saved(c) ==
  /\ c.kind = "save" /\ c.stage = "done"
  /\ page' = [page EXCEPT !.saving = FALSE, !.success = TRUE, !.timers = @ + 1,
       !.user = [name |-> c.form.name, avatar |-> IF c.form.avatar = None THEN @.avatar ELSE c.form.avatar]]
  /\ End(c)
  /\ UNCHANGED <<server, seen>>

SaveFails(c) ==
  /\ c.kind = "save"
  /\ Trouble(TRUE) /\ End(c)
  /\ page' = [page EXCEPT !.saving = FALSE, !.error = TRUE]
  /\ UNCHANGED seen

\* Two seconds after a save the page is left, whatever is edited by then.
TimerFires ==
  /\ page.timers > 0
  /\ page' = Gone
  /\ UNCHANGED <<server, calls, seen>>

\* Opened at one's own URL or at that of another user, which is redirected:
\* both profiles are then loaded.
Init ==
  /\ \E n \in {CHOOSE m \in Names : TRUE}, both \in BOOLEAN :
     \E skills \in IF both THEN {{}, {"mine"}} ELSE {{}} :
       /\ server = [own |-> [name |-> n, avatar |-> "old", mentor |-> both, student |-> both,
                             skills |-> skills, learning |-> both], trouble |-> 0]
       /\ page = [form |-> Blank, loaded |-> None, user |-> [name |-> n, avatar |-> "old"], loading |-> TRUE, saving |-> FALSE,
                  uploading |-> FALSE, error |-> FALSE, success |-> FALSE, dirty |-> FALSE, left |-> FALSE,
                  timers |-> 0, saves |-> 0, edits |-> 0]
  /\ \E elsewhere \in BOOLEAN :
       calls = Only(Load("own")) (+) IF elsewhere THEN Only(Load("theirs")) ELSE EmptyBag
  /\ seen = {}

Clicks == Edit \/ AddNamelessSkill \/ ChooseAvatar \/ RemoveAvatar \/ Cancel \/ Submit
Takes(c) == Loaded(c) \/ LoadFails(c) \/ AvatarUploaded(c) \/ AvatarFails(c) \/ Saved(c) \/ SaveFails(c)

\* A page that was left takes nothing any more.
Next ==
  \/ ~page.left /\ (OthersChange \/ Clicks \/ TimerFires \/ \E c \in Busy : Takes(c))
  \/ \E c \in Busy : Answers(c)

(***************************************************************************)
(* Properties.                                                             *)
(***************************************************************************)

TypeOK ==
  /\ DOMAIN server.own = DOMAIN Theirs /\ server.own.name \in Names \union {"theirs"}
  /\ page.form.skills \union server.own.skills \subseteq {"mine", "theirs"}
  /\ {page.loading, page.saving, page.uploading, page.error, page.success, page.dirty, page.left} \subseteq BOOLEAN
  /\ page.timers \in 0..MaxSaves /\ page.saves \in 0..MaxSaves /\ page.edits \in 0..MaxEdits
  /\ seen \subseteq {"overtaken", "kept", "changed", "removed", "again"}

AtRest == Busy = {} /\ Open /\ ~page.dirty

\* Before anything is saved the form is the user's own profile: unless the one
\* of the redirected URL came last, or left its skills behind, or another tab
\* changed the profile.
FormIsOwn ==
  AtRest /\ page.saves = 0 /\ seen \intersect {"overtaken", "kept", "changed"} = {}
    => /\ page.form.name = server.own.name /\ page.form.skills = server.own.skills
       /\ page.form.mentor = server.own.mentor /\ page.form.student = server.own.student

Claims == AtRest /\ page.success /\ seen \intersect {"changed", "again"} = {}

\* A form that says it is saved is: its text, its picture, the roles it ticks
\* and the skills of a mentor.  A second save is compared with what was loaded
\* before the first, and sends no field that is set back.
SavedIsTrue ==
  Claims /\ "overtaken" \notin seen
    => /\ page.form.name = server.own.name /\ page.form.avatar = server.own.avatar
       /\ server.own.skills = IF page.form.mentor THEN page.form.skills ELSE {}
       /\ page.form.mentor => server.own.mentor
       /\ page.form.student => server.own.student

\* The signed-in user of the other pages is the one that was saved, except for
\* a picture that was removed.
UserIsTrue ==
  Claims /\ "overtaken" \notin seen
    => /\ page.user.name = server.own.name
       /\ page.user.avatar = server.own.avatar \/ "removed" \in seen

\* A spinner or a disabled button has a request that will end it.
BusyHasRequest ==
  page.left \/ /\ page.loading => Of({"load"}) # {}
               /\ page.saving => Of({"save"}) # {}
               /\ page.uploading => Of({"upload"}) # {}

\* "If the box is not ticked, but there was a mentor, remove" (ProfileEdit.tsx).
RoleIsRemoved == Claims /\ page.loaded.mentor /\ ~page.form.mentor => ~server.own.mentor
=============================================================================
