-------------------------------- MODULE Tags --------------------------------
(***************************************************************************)
(* Tags, their categories and the tags of files: the tables of             *)
(* internal/db, the handlers of internal/api, and the browsers that list   *)
(* files with copies of their tags and save a file's whole set from them.  *)
(* The server has one database connection with foreign keys on: every      *)
(* statement and every transaction is one step, and a request may consist  *)
(* of several.  A request that is refused changes nothing unless an action *)
(* below says otherwise.                                                   *)
(***************************************************************************)
EXTENDS Naturals, Functions

CONSTANTS Files,                     (* files with a row at the start          *)
          Users,                     (* open pages: one per browser            *)
          Loads, Saves,              (* bounds: loads, saves that await replies *)
          MaxTags, MaxCats,          (* bounds: ids handed out                 *)
          Names,                     (* names of tags                          *)
          CatNames, DefaultCats,     (* names of categories; the seeded ones   *)
          NoName, NoCat, NoFile, NoUser,
          Unlisted, Unread,          (* in place of the copy of a file's tags  *)
          Broken                     (* an error that was taken for a copy     *)

TagIds == 1..MaxTags
CatIds == 1..MaxCats

ASSUME TagsAssumption ==
    /\ MaxTags \in Nat /\ MaxCats \in Nat
    /\ DefaultCats \subseteq CatNames
    /\ NoName \notin Names \union CatNames /\ NoCat \notin CatIds
    /\ NoFile \notin Files /\ NoUser \notin Users
    /\ \A c \in SUBSET TagIds : c # Unlisted /\ c # Unread /\ c # Broken
    /\ Unlisted # Unread /\ Unread # Broken /\ Broken # Unlisted

VARIABLES files,             (* rows of file_registry                          *)
          catName,           (* name of each category, NoName without a row    *)
          tagName, tagCat,   (* name and category_id of each tag               *)
          lastCat, lastTag,  (* AUTOINCREMENT: the last ids handed out         *)
          fileTags,          (* file_tags: pairs of a file and a tag           *)
          list,              (* the files each page lists, with their tags     *)
          load,              (* calls of loadFiles that await replies          *)
          file, page,        (* the file in each viewer, and the tags it shows *)
          attached,          (* whether that is still the object of the list   *)
          save,              (* calls of _saveFileTags that await replies      *)
          heirs              (* history: what each tag has been merged into    *)

catVars == <<catName, lastCat>>
tagRows == <<tagName, tagCat, lastTag, heirs>>
database == <<files, catVars, tagRows, fileTags>>
viewers == <<file, page, attached>>
browsers == <<list, load, viewers, save>>
tagVars == <<database, browsers>>

Cats == {c \in CatIds : catName[c] # NoName}
LiveTags == {t \in TagIds : tagName[t] # NoName}
TagsOf(f) == {t \in TagIds : <<f, t>> \in fileTags}

(* The tags of a file, as a browser has them.                              *)
Copies == {Broken} \union SUBSET TagIds

(* A call of loadFiles: the files it lists, with the tags read so far.     *)
Load == [by : Users \union {NoUser}, tags : [Files -> {Unlisted, Unread} \union Copies]]
NoLoad == [by |-> NoUser, tags |-> [f \in Files |-> Unlisted]]

(* A call of _saveFileTags: its place in the handler, the file, the tags   *)
(* that the request or the reply carries, and what the click took off.     *)
Save == [at : {"free", "sent", "found", "saved", "answered"}, by : Users \union {NoUser},
         file : Files \union {NoFile}, tags : Copies, off : SUBSET TagIds]
NoSave == [at |-> "free", by |-> NoUser, file |-> NoFile, tags |-> {}, off |-> {}]

TagsTypeOK ==
    /\ files \subseteq Files
    /\ catName \in [CatIds -> CatNames \union {NoName}]
    /\ tagName \in [TagIds -> Names \union {NoName}]
    /\ tagCat \in [TagIds -> CatIds \union {NoCat}]
    /\ lastCat \in 0..MaxCats /\ lastTag \in 0..MaxTags
    /\ fileTags \subseteq Files \X TagIds
    /\ list \in [Users -> [Files -> {Unlisted} \union Copies]]
    /\ load \in [Loads -> Load]
    /\ file \in [Users -> Files \union {NoFile}]
    /\ page \in [Users -> Copies]
    /\ attached \in [Users -> BOOLEAN]
    /\ save \in [Saves -> Save]
    /\ heirs \in [TagIds -> SUBSET TagIds]

-----------------------------------------------------------------------------
(* Categories.                                                             *)

CreateTagCategory ==
    /\ lastCat < MaxCats
    /\ \E n \in CatNames :
          /\ \A c \in Cats : catName[c] # n
          /\ catName' = [catName EXCEPT ![lastCat + 1] = n]
    /\ lastCat' = lastCat + 1
    /\ UNCHANGED <<files, tagRows, fileTags, browsers>>

(* A new name; a request for a new colour alone changes nothing here.      *)
UpdateTagCategory ==
    /\ \E c \in Cats, n \in CatNames :
          /\ \A d \in Cats \ {c} : catName[d] # n
          /\ catName' = [catName EXCEPT ![c] = n]
    /\ UNCHANGED <<files, lastCat, tagRows, fileTags, browsers>>

(* ON DELETE SET NULL: its tags become uncategorised.                      *)
DeleteTagCategory ==
    /\ \E c \in Cats :
          /\ catName' = [catName EXCEPT ![c] = NoName]
          /\ tagCat' = [t \in TagIds |-> IF tagCat[t] = c THEN NoCat ELSE tagCat[t]]
    /\ UNCHANGED <<files, lastCat, tagName, lastTag, heirs, fileTags, browsers>>

-----------------------------------------------------------------------------
(* Tags.                                                                   *)

(* The foreign key of category_id and UNIQUE (name, category_id), which    *)
(* never finds two uncategorised tags equal: the column is NULL in both.   *)
Admitted(t, n, c) ==
    /\ c \in Cats \union {NoCat}
    /\ c # NoCat => \A s \in LiveTags \ {t} : ~(tagName[s] = n /\ tagCat[s] = c)

CreateTag ==
    /\ lastTag < MaxTags
    /\ \E n \in Names, c \in CatIds \union {NoCat} :
          /\ Admitted(lastTag + 1, n, c)
          /\ tagName' = [tagName EXCEPT ![lastTag + 1] = n]
          /\ tagCat' = [tagCat EXCEPT ![lastTag + 1] = c]
    /\ lastTag' = lastTag + 1
    /\ UNCHANGED <<files, catVars, heirs, fileTags, browsers>>

(* A mutant of UpdateTag: the table lacks UNIQUE (name, category_id).      *)
UpdateTagAnyName ==
    /\ \E t \in LiveTags, n \in Names : tagName' = [tagName EXCEPT ![t] = n]
    /\ UNCHANGED <<files, catVars, tagCat, lastTag, heirs, fileTags, browsers>>

(* A new name, a new category or both; what is not given stays.            *)
UpdateTag ==
    /\ \E t \in LiveTags, n \in Names, c \in CatIds \union {NoCat} :
          /\ Admitted(t, n, c)
          /\ tagName' = [tagName EXCEPT ![t] = n]
          /\ tagCat' = [tagCat EXCEPT ![t] = c]
    /\ UNCHANGED <<files, catVars, lastTag, heirs, fileTags, browsers>>

(* The row of tag t goes, and its rows in file_tags (ON DELETE CASCADE).   *)
DropTag(t) ==
    /\ tagName' = [tagName EXCEPT ![t] = NoName]
    /\ tagCat' = [tagCat EXCEPT ![t] = NoCat]
    /\ UNCHANGED lastTag

(* A mutant of DeleteTag: the connection has its foreign keys off.         *)
DeleteTagAlone ==
    /\ \E t \in LiveTags : DropTag(t)
    /\ UNCHANGED <<files, catVars, heirs, fileTags, browsers>>

DeleteTag ==
    /\ \E t \in LiveTags :
          /\ DropTag(t)
          /\ fileTags' = {ft \in fileTags : ft[2] # t}
    /\ UNCHANGED <<files, catVars, heirs, browsers>>

(* The rows MergeTags inserts: each must refer to a tag that exists.       *)
Reassigned(source, into) == {ft \in Files \X {into} : <<ft[1], source>> \in fileTags}

(* One transaction.  The target is not looked up: a target that is gone    *)
(* is refused only by the foreign key of an inserted row, if there is one. *)
MergeTags ==
    /\ \E source \in LiveTags, into \in TagIds :
          /\ source # into
          /\ into \in LiveTags \/ Reassigned(source, into) = {}
          /\ fileTags' = {ft \in fileTags : ft[2] # source} \union Reassigned(source, into)
          /\ DropTag(source)
          /\ heirs' = [t \in TagIds |-> IF source \in heirs[t] THEN heirs[t] \union {into}
                                        ELSE heirs[t]]
    /\ UNCHANGED <<files, catVars, browsers>>

(* A file is deleted for good, its rows in file_tags with it.              *)
DeleteFile ==
    /\ \E f \in files :
          /\ files' = files \ {f}
          /\ fileTags' = {ft \in fileTags : ft[1] # f}
    /\ UNCHANGED <<catVars, tagRows, browsers>>

-----------------------------------------------------------------------------
(* A browser (app.js): the list of files.                                  *)

(* loadFiles asks for the files; a page, a filter or a search shows some.  *)
Asks(u, shown) ==
    \E l \in Loads :
        /\ load[l].by = NoUser
        /\ load' = [load EXCEPT ![l] =
              [by |-> u, tags |-> [f \in Files |-> IF f \in shown THEN Unread ELSE Unlisted]]]

LoadFiles(u, shown) ==
    /\ Asks(u, shown)
    /\ UNCHANGED <<database, list, viewers, save>>

(* handleGetFileTags: each file's tags are read by a request of their own. *)
(* The status of the reply is not looked at: an error becomes the tags.    *)
FetchTags(l, f) ==
    /\ load[l].tags[f] = Unread
    /\ \E c \in {Broken} \union (IF f \in files THEN {TagsOf(f)} ELSE {}) :
          load' = [load EXCEPT ![l].tags[f] = c]
    /\ UNCHANGED <<database, list, viewers, save>>

(* No reply, or one that is not JSON: the file is shown without tags.      *)
FetchThrows(l, f) ==
    /\ load[l].tags[f] = Unread
    /\ load' = [load EXCEPT ![l].tags[f] = {}]
    /\ UNCHANGED <<database, list, viewers, save>>

(* The page gets a new list; a file that is in the viewer stays the object *)
(* of the old one.                                                         *)
LoadEnds(l) ==
    /\ load[l].by # NoUser
    /\ \A f \in Files : load[l].tags[f] # Unread
    /\ list' = [list EXCEPT ![load[l].by] = load[l].tags]
    /\ attached' = [attached EXCEPT ![load[l].by] = FALSE]
    /\ load' = [load EXCEPT ![l] = NoLoad]
    /\ UNCHANGED <<database, file, page, save>>

LoadFails(l) ==
    /\ load[l].by # NoUser
    /\ load' = [load EXCEPT ![l] = NoLoad]
    /\ UNCHANGED <<database, list, viewers, save>>

(* The results of a search and the list of duplicates come without tags.   *)
ListUntagged(u) ==
    /\ \E shown \in SUBSET files :
          list' = [list EXCEPT ![u] = [f \in Files |-> IF f \in shown THEN {} ELSE Unlisted]]
    /\ attached' = [attached EXCEPT ![u] = FALSE]
    /\ UNCHANGED <<database, load, file, page, save>>

-----------------------------------------------------------------------------
(* The viewer, and PUT /api/files/{id}/tags.                               *)

Show(u, f, tags, isListed) ==
    /\ file' = [file EXCEPT ![u] = f]
    /\ page' = [page EXCEPT ![u] = tags]
    /\ attached' = [attached EXCEPT ![u] = isListed]

(* A click on the list, which stays clickable while it is loaded again, or *)
(* previous and next in a viewer that is open.                             *)
Open(u, f) ==
    /\ list[u][f] # Unlisted
    /\ Show(u, f, list[u][f], TRUE)
    /\ UNCHANGED <<database, list, load, save>>

(* On the page of files, the list is loaded again.                         *)
Close(u, shown) ==
    /\ file[u] # NoFile
    /\ Show(u, NoFile, {}, FALSE)
    /\ Asks(u, shown) \/ UNCHANGED load
    /\ UNCHANGED <<database, list, save>>

(* _saveFileTags sends its request; nothing waits for one sent before.     *)
Sends(u, tags, off) ==
    \E r \in Saves :
        /\ save[r].at = "free"
        /\ save' = [save EXCEPT ![r] =
              [at |-> "sent", by |-> u, file |-> file[u], tags |-> tags, off |-> off]]

(* A tag is added, from a list of all tags that may be old, or taken off:  *)
(* from the tags the page shows.  An error shown as tags stops the click.  *)
Click(u) ==
    /\ file[u] # NoFile /\ page[u] # Broken
    /\ \/ \E t \in (1..lastTag) \ page[u] : Sends(u, page[u] \union {t}, {})
       \/ \E t \in page[u] : Sends(u, page[u] \ {t}, {t})
    /\ UNCHANGED <<database, list, load, viewers>>

(* handleSetFileTags asks for the file first.                              *)
FindFile(r) ==
    /\ save[r].at = "sent" /\ save[r].file \in files
    /\ save' = [save EXCEPT ![r].at = "found"]
    /\ UNCHANGED <<database, list, load, viewers>>

(* The foreign keys of the rows that SetFileTags inserts.                  *)
Insertable(r) == save[r].tags # {} => save[r].file \in files /\ save[r].tags \subseteq LiveTags

(* The rows of save r's file, replaced by those of tags.                   *)
Replaced(r, tags) == {ft \in fileTags : ft[1] # save[r].file} \union ({save[r].file} \X tags)

(* A mutant of SetFileTags: no transaction around the two statements.      *)
SetFileTagsPiecemeal(r) ==
    /\ save[r].at = "found"
    /\ fileTags' = Replaced(r, IF Insertable(r) THEN save[r].tags ELSE {})
    /\ save' = [save EXCEPT ![r].at = "saved"]
    /\ UNCHANGED <<files, catVars, tagRows, list, load, viewers>>

(* SetFileTags: the rows are deleted and the new ones inserted in a        *)
(* transaction.                                                            *)
SetFileTags(r) ==
    /\ save[r].at = "found" /\ Insertable(r)
    /\ fileTags' = Replaced(r, save[r].tags)
    /\ save' = [save EXCEPT ![r].at = "saved"]
    /\ UNCHANGED <<files, catVars, tagRows, list, load, viewers>>

(* A query or the transaction fails (a foreign key, a busy database) and   *)
(* is rolled back.                                                         *)
Refuse(r) ==
    /\ save[r].at \in {"sent", "found", "saved"}
    /\ save' = [save EXCEPT ![r] = [@ EXCEPT !.at = "answered", !.tags = Broken]]
    /\ UNCHANGED <<database, list, load, viewers>>

(* The reply: the file's tags as they are now.                             *)
GetFileTags(r) ==
    /\ save[r].at = "saved"
    /\ save' = [save EXCEPT ![r] = [@ EXCEPT !.at = "answered", !.tags = TagsOf(save[r].file)]]
    /\ UNCHANGED <<database, list, load, viewers>>

(* _saveFileTags goes on: what the reply carries, be it an error, becomes  *)
(* the tags of whatever file is in the viewer by then.                     *)
TakeReply(r) ==
    /\ save[r].at = "answered"
    /\ LET u == save[r].by IN
          /\ page' = IF file[u] = NoFile THEN page ELSE [page EXCEPT ![u] = save[r].tags]
          /\ list' = IF attached[u] THEN [list EXCEPT ![u][file[u]] = save[r].tags] ELSE list
    /\ save' = [save EXCEPT ![r] = NoSave]
    /\ UNCHANGED <<database, load, file, attached>>

-----------------------------------------------------------------------------
(* Migrate seeds, at every start, the default categories whose names are   *)
(* not there: also those that were renamed or deleted.                     *)
Missing == {n \in DefaultCats : \A c \in Cats : catName[c] # n}

Migrate ==
    \E last \in lastCat..MaxCats : \E new \in Bijection((lastCat + 1)..last, Missing) :
        /\ lastCat' = last
        /\ catName' = [c \in CatIds |-> IF c \in (lastCat + 1)..last THEN new[c] ELSE catName[c]]

(* The server is killed and started again: replies to saves are lost, and  *)
(* a page without its reply shows what it showed.                          *)
Restart ==
    /\ Migrate
    /\ save' = [r \in Saves |-> NoSave]
    /\ UNCHANGED <<files, tagRows, fileTags, list, load, viewers>>

-----------------------------------------------------------------------------
TagsInit ==
    /\ files = Files
    /\ lastCat \in 0..MaxCats
    /\ \E new \in Bijection(1..lastCat, DefaultCats) :
          catName = [c \in CatIds |-> IF c <= lastCat THEN new[c] ELSE NoName]
    /\ tagName = [t \in TagIds |-> NoName] /\ lastTag = 0
    /\ tagCat = [t \in TagIds |-> NoCat]
    /\ fileTags = {}
    /\ list = [u \in Users |-> [f \in Files |-> Unlisted]]
    /\ load = [l \in Loads |-> NoLoad]
    /\ file = [u \in Users |-> NoFile]
    /\ page = [u \in Users |-> {}]
    /\ attached = [u \in Users |-> FALSE]
    /\ save = [r \in Saves |-> NoSave]
    /\ heirs = [t \in TagIds |-> {t}]

Manage == \/ CreateTagCategory \/ UpdateTagCategory \/ DeleteTagCategory
          \/ CreateTag \/ UpdateTag \/ DeleteTag \/ MergeTags \/ DeleteFile

(* What happens without the user: the handler's steps and the replies.     *)
Handle(r) == FindFile(r) \/ SetFileTags(r) \/ Refuse(r) \/ GetFileTags(r) \/ TakeReply(r)
GoOn(l) == LoadEnds(l) \/ LoadFails(l) \/ \E f \in Files : FetchTags(l, f)

Gesture(u) ==
    \/ Click(u) \/ ListUntagged(u)
    \/ \E f \in Files : Open(u, f)
    \/ \E shown \in SUBSET files : LoadFiles(u, shown) \/ Close(u, shown)

TagsNext ==
    \/ Manage
    \/ \E r \in Saves : Handle(r)
    \/ \E l \in Loads : GoOn(l) \/ \E f \in Files : FetchThrows(l, f)
    \/ \E u \in Users : Gesture(u)
    \/ Restart

TagsSpec == TagsInit /\ [][TagsNext]_tagVars

(* Orderly use.  A user waits: for the reply to a save before anything     *)
(* else, for the list before opening a file or editing its tags.  The list *)
(* is loaded with no file in the viewer, its tags are read (no fetch       *)
(* throws, nothing is opened from a search), and a file is listed in one   *)
(* browser at a time.  No save awaits its reply when the server restarts.  *)
Saving(u) == \E r \in Saves : save[r].by = u
Loading(u) == \E l \in Loads : load[l].by = u

Listed(u) == {f \in Files : \/ list[u][f] # Unlisted
                            \/ \E l \in Loads : load[l].by = u /\ load[l].tags[f] # Unlisted}
ListedElsewhere(u) == UNION {Listed(v) : v \in Users \ {u}}

OrderlyGesture(u) ==
    /\ ~Saving(u)
    /\ \/ ~Loading(u) /\ (Click(u) \/ \E f \in Files : Open(u, f))
       \/ \E shown \in SUBSET (files \ ListedElsewhere(u)) :
             (file[u] = NoFile /\ LoadFiles(u, shown)) \/ Close(u, shown)

OrderlyNext ==
    \/ Manage
    \/ \E r \in Saves : Handle(r)
    \/ \E l \in Loads : GoOn(l)
    \/ \E u \in Users : OrderlyGesture(u)
    \/ (\A u \in Users : ~Saving(u)) /\ Restart

OrderlySpec == TagsInit /\ [][OrderlyNext]_tagVars

-----------------------------------------------------------------------------
(* What must hold.                                                         *)

(* No association outlives its file or its tag, and no tag its category:   *)
(* the lists of files by tag and of tags by category join over these.      *)
ReferencesHold ==
    /\ \A ft \in fileTags : ft[1] \in files /\ ft[2] \in LiveTags
    /\ \A t \in LiveTags : tagCat[t] \in Cats \union {NoCat}
    /\ \A t \in TagIds \ LiveTags : tagCat[t] = NoCat

(* No two tags of one category share a name, whatever is renamed, moved,   *)
(* merged or left behind by a deleted category.  (Tags without a category  *)
(* may share one: UNIQUE takes their NULLs for different.)                 *)
NamesDiffer ==
    \A s, t \in LiveTags : s # t /\ tagCat[s] # NoCat /\ tagCat[s] = tagCat[t]
                                => tagName[s] # tagName[t]

(* A tag of a file does not get lost.  Where a file had a tag and has not, *)
(* the file is gone, or the tag was deleted, or it was merged and the file *)
(* has the tag it became, or a user took it off, or took off a tag that    *)
(* had become this one while the page still showed the old one.  It holds  *)
(* in orderly use; each thing that leaves out loses tags (MCTags).         *)
Merged(t, f) == \E s \in heirs'[t] : <<f, s>> \in fileTags'
Deleted(t) == tagName'[t] = NoName /\ heirs' = heirs
TakenOff(t, f) ==
    \E r \in Saves : /\ save[r].at = "found" /\ save'[r].at = "saved" /\ save[r].file = f
                      /\ \E s \in save[r].off : t \in heirs[s]

NoTagLost ==
    [][\A f \in Files, t \in TagIds :
          <<f, t>> \in fileTags /\ <<f, t>> \notin fileTags'
              => f \notin files' \/ Deleted(t) \/ Merged(t, f) \/ TakenOff(t, f)]_tagVars

(* A tag's row goes only in a deletion, or in a merge into a tag there is: *)
(* false, the target of a merge is not looked up.                          *)
MergeKeepsTheTarget ==
    [][\A t \in LiveTags : t \notin LiveTags' /\ heirs' # heirs
          => \E s \in heirs'[t] \ heirs[t] : s \in LiveTags']_tagVars

-----------------------------------------------------------------------------
(* A reply is shown on the file it is about, so that a list stays fresh:   *)
(* false, the viewer may have moved on.                                    *)
RepliesStayOnTheirFile ==
    [][\A r \in Saves : save[r].at = "answered" /\ save'[r].at = "free" /\ page' # page
          => file[save[r].by] = save[r].file]_tagVars

-----------------------------------------------------------------------------
(* Why no tag is lost: in orderly use a copy knows every tag its file has, *)
(* under its id or under that of a tag that became it, unless a save of    *)
(* that file has yet to be answered; what a save drops was taken off.      *)
Known(c) == {t \in TagIds : \E s \in c : t \in heirs[s]}
Covers(c, f) == c \notin {Unlisted, Unread, Broken} => TagsOf(f) \subseteq Known(c)

ListsCover ==
    \A u \in Users, f \in Files :
        \/ Covers(list[u][f], f)
        \/ \E r \in Saves : /\ save[r].by = u /\ save[r].file = f
                            /\ save[r].at \in {"saved", "answered"}

LoadsCover == \A l \in Loads, f \in Files : Covers(load[l].tags[f], f)

SavesCover ==
    \A r \in Saves :
        /\ save[r].at \in {"sent", "found"}
              => Covers(save[r].tags \union save[r].off, save[r].file)
        /\ save[r].at = "answered" => Covers(save[r].tags, save[r].file)

CopiesCover == ListsCover /\ LoadsCover /\ SavesCover

(* What waiting for replies brings about: a viewer shows what its list     *)
(* has, a save is of the file in the viewer and the only one of its        *)
(* browser, and no two browsers list a file.                               *)
ViewersShowLists ==
    \A u \in Users : file[u] # NoFile =>
        ~Loading(u) /\ attached[u] /\ page[u] = list[u][file[u]] /\ page[u] # Unlisted

SavesAreShown ==
    /\ \A r \in Saves :
          \/ save[r].at = "free" /\ save[r].by = NoUser
          \/ /\ save[r].at # "free" /\ save[r].by \in Users
             /\ save[r].file = file[save[r].by] /\ save[r].file # NoFile
             /\ save[r].at \in {"sent", "found"} => save[r].tags # Broken
    /\ \A q, r \in Saves : q # r /\ save[q].by = save[r].by => save[r].by = NoUser

ListsApart ==
    /\ \A l \in Loads : load[l].by = NoUser => \A f \in Files : load[l].tags[f] = Unlisted
    /\ \A u, v \in Users : u # v => Listed(u) \intersect Listed(v) = {}

UsersWait == ViewersShowLists /\ SavesAreShown /\ ListsApart

(* A tag that has not been merged is its own only heir.                    *)
HeirsOfMerged ==
    /\ \A t \in LiveTags : t <= lastTag
    /\ \A t \in TagIds : t \in heirs[t]
    /\ \A t \in TagIds : t \in LiveTags \/ t > lastTag => heirs[t] = {t}
=============================================================================
