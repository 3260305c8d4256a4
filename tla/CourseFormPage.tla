--------------------------- MODULE CourseFormPage ---------------------------
(***************************************************************************)
(* The form that creates or edits a course, with the upload of its         *)
(* picture.                                                                *)
(*                                                                         *)
(* The text of the form is a version that grows with each edit; a picture  *)
(* is the file it comes from, as a preview, as a URL and at the server.    *)
(* The status of the course, and the profile of the user, are left out, as *)
(* is the refresh of a token: JSON drops the function the page sends for   *)
(* it, so that the server always refuses.                                  *)
(***************************************************************************)
EXTENDS WebPage

CONSTANTS Files, MaxEdits

Pictures == Files \union {None}

(***************************************************************************)
(* The screen.                                                             *)
(***************************************************************************)

Open == ~page.loading /\ ~page.left /\ (page.edits => page.owner)
CanSubmit == Open /\ ~page.submitting /\ ~page.uploading
CanChoose == Open /\ ~page.uploading
CanClear == CanChoose /\ page.file # None
CanUpload == CanClear /\ page.edits
CanDelete == CanChoose /\ page.file = None /\ page.edits /\ page.picture # None

(***************************************************************************)
(* Requests.                                                               *)
(***************************************************************************)

Request(kind, text, file) == [kind |-> kind, text |-> text, file |-> file, stage |-> "sent"]
Become(c, kind) == Request(kind, c.text, c.file)

\* The course was deleted: post_service refuses what is sent for it.
Gone == page.edits /\ server.posts = 0

\* "save" creates or updates, "upload" comes from the button and "attach"
\* from a save; "head" asks whether a picture is there.
Server(c) ==
  /\ c.stage = "sent" /\ c.kind \notin {"head", "look", "reader"}
  /\ \/ /\ c.kind = "load"
        /\ Turn(c, [c EXCEPT !.stage = "done", !.text = server.text, !.file = server.picture])
        /\ UNCHANGED server
     \/ /\ c.kind # "load" /\ ~Gone
        /\ Turn(c, [c EXCEPT !.stage = "done"])
        /\ server' = CASE c.kind = "save" -> [server EXCEPT !.text = c.text,
                                               !.posts = IF page.edits THEN @ ELSE @ + 1]
                       [] c.kind \in {"upload", "attach"} -> [server EXCEPT !.picture = c.file]
                       [] c.kind = "delete" -> [server EXCEPT !.picture = None]
                       [] c.kind = "remove" -> [server EXCEPT !.posts = 0]
  /\ UNCHANGED <<page, seen>>

(***************************************************************************)
(* Loading a course to edit.                                               *)
(***************************************************************************)

Loaded(c) ==
  /\ c.kind = "load" /\ c.stage = "done"
  /\ page' = [page EXCEPT !.picture = c.file, !.owner = @ \/ c.file = None, !.text = IF c.file = None THEN c.text ELSE @,
                          !.loading = c.file # None]
  /\ IF c.file = None THEN End(c) ELSE Turn(c, Become(c, "look"))
  /\ UNCHANGED <<server, seen>>

\* The picture would be shown if a HEAD request found it: the gateway has its
\* route for GET only, so that it never does.  The form is filled after that.
Looked(c) ==
  /\ c.kind = "look"
  /\ page' = [page EXCEPT !.preview = None, !.owner = TRUE, !.text = c.text, !.loading = FALSE]
  /\ End(c)
  /\ UNCHANGED <<server, seen>>

LoadFails(c) ==
  /\ c.kind = "load"
  /\ Trouble(TRUE) /\ End(c)
  /\ page' = [page EXCEPT !.loading = FALSE]
  /\ UNCHANGED seen

(***************************************************************************)
(* The picture.                                                            *)
(***************************************************************************)

\* Another choice while a picture is read or looked at, or the form is saved.
Hurried == If(Of({"reader", "head"}) # {}, "overtaken") \union If(page.submitting, "edited")

\* handleFileSelect: the file is kept at once, its preview once it is read.
ChooseFile(f) ==
  /\ CanChoose
  /\ Send(Request("reader", 0, f))
  /\ page' = [page EXCEPT !.file = f]
  /\ Saw(Hurried)
  /\ UNCHANGED server

FileRead(c) ==
  /\ c.kind = "reader"
  /\ page' = [page EXCEPT !.preview = c.file]
  /\ End(c)
  /\ UNCHANGED <<server, seen>>

\* Mutant: the preview stays when the choice is taken back.
ClearFileOnly ==
  /\ CanClear
  /\ page' = [page EXCEPT !.file = None]
  /\ Saw(Hurried)
  /\ UNCHANGED <<server, calls>>

ClearFile ==
  /\ CanClear
  /\ page' = [page EXCEPT !.file = None, !.preview = page.picture]
  /\ Saw(Hurried)
  /\ UNCHANGED <<server, calls>>

\* handleAvatarUpload.  The buttons wait for an upload, not for a save.
Upload ==
  /\ CanUpload
  /\ Send(Request("upload", 0, page.file))
  /\ page' = [page EXCEPT !.uploading = TRUE]
  /\ UNCHANGED <<server, seen>>

\* The buttons are enabled again before the new picture is looked at, and only
\* after that the choice is dropped: whichever it is by then.
Uploaded(c) ==
  /\ c.kind = "upload" /\ c.stage = "done"
  /\ Turn(c, Become(c, "head"))
  /\ page' = [page EXCEPT !.uploading = FALSE]
  /\ UNCHANGED <<server, seen>>

\* The URL of the new picture is not found by HEAD either: the preview stays the
\* one that was read from a file.
HeadAnswered(c) ==
  /\ c.kind = "head"
  /\ page' = [page EXCEPT !.picture = c.file, !.file = None]
  /\ End(c)
  /\ UNCHANGED <<server, seen>>

\* Removing the picture is confirmed, and shares the flag of the upload.
DeletePicture ==
  /\ CanDelete
  /\ Send(Request("delete", 0, None))
  /\ page' = [page EXCEPT !.uploading = TRUE]
  /\ Saw(Hurried)
  /\ UNCHANGED server

PictureDeleted(c) ==
  /\ c.kind = "delete" /\ c.stage = "done"
  /\ page' = [page EXCEPT !.preview = None, !.file = None, !.picture = None, !.uploading = FALSE]
  /\ End(c)
  /\ UNCHANGED <<server, seen>>

PictureFails(c) ==
  /\ c.kind \in {"upload", "delete"}
  /\ Trouble(~Gone) /\ End(c)
  /\ page' = [page EXCEPT !.uploading = FALSE]
  /\ Saw(If(c.stage = "done", "lost"))

(***************************************************************************)
(* The form.                                                               *)
(***************************************************************************)

\* The inputs stay enabled while a save is under way.
Edit ==
  /\ Open /\ page.text < MaxEdits
  /\ page' = [page EXCEPT !.text = @ + 1]
  /\ Saw(If(page.submitting, "edited"))
  /\ UNCHANGED <<server, calls>>

\* Mutant: the buttons are not disabled by a save.
SubmitAgain ==
  /\ Open /\ ~page.uploading
  /\ Send(Request("save", page.text, page.file))
  /\ page' = [page EXCEPT !.submitting = TRUE]
  /\ UNCHANGED <<server, seen>>

\* handleSubmit; the file is the one of the render it was clicked in.
Submit ==
  /\ CanSubmit
  /\ Send(Request("save", page.text, page.file))
  /\ page' = [page EXCEPT !.submitting = TRUE]
  /\ Saw(If(Of({"head"}) # {}, "overtaken"))
  /\ UNCHANGED server

\* Mutant: the page is left without the picture.
SavedWithoutFile(c) ==
  /\ c.kind = "save" /\ c.stage = "done"
  /\ End(c)
  /\ page' = [page EXCEPT !.left = TRUE, !.submitting = FALSE]
  /\ UNCHANGED <<server, seen>>

\* Saved: the picture follows, then the page is left.
Saved(c) ==
  /\ c.kind = "save" /\ c.stage = "done"
  /\ IF c.file # None
     THEN Turn(c, Become(c, "attach")) /\ page' = [page EXCEPT !.uploading = TRUE]
     ELSE End(c) /\ page' = [page EXCEPT !.left = TRUE, !.submitting = FALSE]
  /\ Saw(If(page.uploading \/ Of({"upload"}) # {}, "overtaken"))
  /\ UNCHANGED server

SaveFails(c) ==
  /\ c.kind \in {"save", "remove"}
  /\ Trouble(~Gone \/ c.stage = "done") /\ End(c)
  /\ page' = [page EXCEPT !.submitting = FALSE]
  /\ Saw(If(c.stage = "done", "lost"))

\* A picture that cannot be attached does not keep the page from being left.
Attached(c) ==
  /\ c.kind = "attach"
  /\ \E fails \in BOOLEAN :
       /\ fails \/ c.stage = "done"
       /\ Trouble(fails /\ ~Gone)
       /\ Saw(If(fails, "failed"))
  /\ page' = [page EXCEPT !.uploading = FALSE, !.submitting = FALSE, !.left = TRUE]
  /\ End(c)

\* handleDelete, after a confirmation.
Delete ==
  /\ CanSubmit /\ page.edits
  /\ Send(Request("remove", page.text, None))
  /\ page' = [page EXCEPT !.submitting = TRUE]
  /\ UNCHANGED <<server, seen>>

Deleted(c) ==
  /\ c.kind = "remove" /\ c.stage = "done"
  /\ End(c)
  /\ page' = [page EXCEPT !.left = TRUE]
  /\ Saw({"removed"})
  /\ UNCHANGED server

Init ==
  /\ \E edits \in BOOLEAN, picture \in Pictures :
       /\ edits \/ picture = None
       /\ page = [edits |-> edits, loading |-> edits, owner |-> FALSE, text |-> 0, file |-> None, left |-> FALSE,
                  preview |-> None, picture |-> None, uploading |-> FALSE, submitting |-> FALSE]
       /\ server = [posts |-> IF edits THEN 1 ELSE 0, text |-> 0, picture |-> picture, trouble |-> 0]
       /\ calls = IF edits THEN Only(Request("load", 0, None)) ELSE EmptyBag
  /\ seen = {}

Clicks == Edit \/ Submit \/ Delete \/ ClearFile \/ Upload \/ DeletePicture \/ \E f \in Files : ChooseFile(f)
Takes(c) ==
  \/ Loaded(c) \/ Looked(c) \/ LoadFails(c) \/ FileRead(c) \/ Uploaded(c) \/ HeadAnswered(c)
  \/ PictureDeleted(c) \/ PictureFails(c) \/ Saved(c) \/ SaveFails(c) \/ Attached(c)
  \/ Deleted(c)

\* A page that was left takes nothing any more.
Next ==
  \/ Clicks
  \/ \E c \in Busy : Server(c) \/ (~page.left /\ Takes(c))

(***************************************************************************)
(* Properties.                                                             *)
(***************************************************************************)

TypeOK ==
  /\ page.text \in 0..MaxEdits /\ server.text \in 0..MaxEdits /\ server.posts \in Nat
  /\ {page.file, page.preview, page.picture, server.picture} \subseteq Pictures
  /\ {page.edits, page.loading, page.owner, page.left, page.uploading, page.submitting} \subseteq BOOLEAN
  /\ seen \subseteq {"overtaken", "failed", "lost", "edited", "removed"}

\* One form makes one course, unless the answer to a creation was lost and the
\* form was sent again.
OneCourse == server.posts <= 1 \/ "lost" \in seen

\* At rest the page has the picture of the course as the server has it, and
\* shows the chosen file, or else that picture or none (it is shown after a
\* choice was uploaded or taken back, and not when the page is opened): unless
\* a file was chosen or dropped while one was being read or looked at, or an
\* answer was lost.
PictureIsTrue ==
  Busy = {} /\ page.edits /\ Open /\ seen \intersect {"overtaken", "lost"} = {}
    => /\ page.picture = server.picture
       /\ page.file # None => page.preview = page.file
       /\ page.file = None => page.preview \in {None, page.picture}

\* A page that was left by a save has saved what it showed, text and picture,
\* unless it was edited during the save or the picture failed.
LeftWhenSaved ==
  page.left /\ seen = {}
    => /\ server.text = page.text
       /\ page.file # None => server.picture = page.file

\* A disabled button of the page has a request that will enable it.
BusyHasRequest ==
  page.left \/ /\ page.loading => Of({"load", "look"}) # {}
               /\ page.uploading => Of({"upload", "delete", "attach"}) # {}
               /\ page.submitting => Of({"save", "attach", "remove"}) # {}
=============================================================================
