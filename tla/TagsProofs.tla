----------------------------- MODULE TagsProofs -----------------------------
(* Proofs about Tags, for any files, viewers, names, categories and bounds. *)
EXTENDS Tags, TLAPS

(* The seeding of categories gives new ids and takes no row away.          *)
LEMMA MigrateTyped ==
    ASSUME TagsTypeOK, Migrate
    PROVE  /\ catName' \in [CatIds -> CatNames \union {NoName}]
           /\ lastCat' \in 0..MaxCats
           /\ \A c \in Cats : c \in Cats'
<1>0. PICK last \in lastCat..MaxCats : \E new \in Bijection((lastCat + 1)..last, Missing) :
          /\ lastCat' = last
          /\ catName' = [c \in CatIds |-> IF c \in (lastCat + 1)..last THEN new[c] ELSE catName[c]]
    BY DEF Migrate
<1>1. PICK new \in Bijection((lastCat + 1)..last, Missing) :
          /\ lastCat' = last
          /\ catName' = [c \in CatIds |-> IF c \in (lastCat + 1)..last THEN new[c] ELSE catName[c]]
    BY <1>0
<1>2. new \in [(lastCat + 1)..last -> Missing]
    BY <1>1 DEF Bijection, Injection, Surjection, IsInjective
<1>3. \A c \in (lastCat + 1)..last : new[c] \in CatNames
    BY <1>2, TagsAssumption DEF Missing
<1>4. last \in 0..MaxCats
    BY <1>1, TagsAssumption DEF TagsTypeOK
<1>5. catName' \in [CatIds -> CatNames \union {NoName}]
    BY <1>1, <1>3 DEF TagsTypeOK
<1>6. \A c \in Cats : c \in Cats'
    BY <1>1, <1>3, TagsAssumption DEF Cats
<1> QED BY <1>1, <1>4, <1>5, <1>6

(* The initial states have the types.                                      *)
LEMMA InitTyped == TagsInit => TagsTypeOK
<1> SUFFICES ASSUME TagsInit PROVE TagsTypeOK
    OBVIOUS
<1>1. PICK new \in Bijection(1..lastCat, DefaultCats) :
          catName = [c \in CatIds |-> IF c <= lastCat THEN new[c] ELSE NoName]
    BY DEF TagsInit
<1>2. new \in [1..lastCat -> DefaultCats]
    BY <1>1 DEF Bijection, Injection, Surjection, IsInjective
<1>3. \A c \in CatIds : c <= lastCat => new[c] \in CatNames
    BY <1>2, TagsAssumption DEF CatIds, TagsInit
<1>4. catName \in [CatIds -> CatNames \union {NoName}]
    BY <1>1, <1>3
<1>5. NoSave \in Save /\ NoLoad \in Load /\ {} \in Copies
    BY DEF NoSave, Save, NoLoad, Load, Copies
<1> QED BY <1>4, <1>5, TagsAssumption DEF TagsInit, TagsTypeOK

(* Requests for tags, categories and files keep the types.                 *)
LEMMA ManageTyped == TagsTypeOK /\ Manage => TagsTypeOK'
<1> SUFFICES ASSUME TagsTypeOK, Manage PROVE TagsTypeOK'
    OBVIOUS
<1> USE TagsAssumption DEF TagsTypeOK, catVars, tagRows, browsers, viewers
<1>1. CASE CreateTagCategory
    <2>1. lastCat' \in 0..MaxCats
        BY <1>1 DEF CreateTagCategory
    <2>2. catName' \in [CatIds -> CatNames \union {NoName}]
        BY <1>1 DEF CreateTagCategory
    <2> QED BY <1>1, <2>1, <2>2 DEF CreateTagCategory
<1>2. CASE UpdateTagCategory
    <2>1. catName' \in [CatIds -> CatNames \union {NoName}]
        BY <1>2 DEF UpdateTagCategory
    <2> QED BY <1>2, <2>1 DEF UpdateTagCategory
<1>3. CASE DeleteTagCategory
    BY <1>3 DEF DeleteTagCategory
<1>4. CASE CreateTag
    <2>1. lastTag' \in 0..MaxTags
        BY <1>4 DEF CreateTag
    <2>2. /\ tagName' \in [TagIds -> Names \union {NoName}]
          /\ tagCat' \in [TagIds -> CatIds \union {NoCat}]
        <3>1. PICK n \in Names, c \in CatIds \union {NoCat} :
                  /\ tagName' = [tagName EXCEPT ![lastTag + 1] = n]
                  /\ tagCat' = [tagCat EXCEPT ![lastTag + 1] = c]
            BY <1>4 DEF CreateTag
        <3> QED BY <3>1
    <2> QED BY <1>4, <2>1, <2>2 DEF CreateTag
<1>5. CASE UpdateTag
    <2>1. /\ tagName' \in [TagIds -> Names \union {NoName}]
          /\ tagCat' \in [TagIds -> CatIds \union {NoCat}]
        <3>1. PICK t \in LiveTags, n \in Names, c \in CatIds \union {NoCat} :
                  /\ tagName' = [tagName EXCEPT ![t] = n]
                  /\ tagCat' = [tagCat EXCEPT ![t] = c]
            BY <1>5 DEF UpdateTag
        <3> QED BY <3>1
    <2> QED BY <1>5, <2>1 DEF UpdateTag
<1>6. CASE DeleteTag
    BY <1>6 DEF DeleteTag, DropTag
<1>7. CASE MergeTags
    <2>1. PICK source \in LiveTags, into \in TagIds : MergeTags!1!(source, into)
        BY <1>7 DEF MergeTags
    <2>2. into \in TagIds
        BY DEF TagIds
    <2>3. fileTags' \subseteq Files \X TagIds
        <3>1. Reassigned(source, into) \subseteq Files \X TagIds
            BY <2>2 DEF Reassigned
        <3> QED BY <2>1, <3>1
    <2>4. heirs' \in [TagIds -> SUBSET TagIds]
        BY <2>1, <2>2
    <2> QED BY <1>7, <2>1, <2>3, <2>4 DEF MergeTags, DropTag
<1>8. CASE DeleteFile
    BY <1>8 DEF DeleteFile
<1> QED BY <1>1, <1>2, <1>3, <1>4, <1>5, <1>6, <1>7, <1>8 DEF Manage

(* Steps of the browsers and of the requests they have sent.               *)
Browse ==
    \/ \E r \in Saves : Handle(r)
    \/ \E l \in Loads : GoOn(l) \/ \E f \in Files : FetchThrows(l, f)
    \/ \E u \in Users : Gesture(u)

BrowsersTypeOK ==
    /\ list \in [Users -> [Files -> {Unlisted} \union Copies]]
    /\ load \in [Loads -> Load]
    /\ file \in [Users -> Files \union {NoFile}]
    /\ page \in [Users -> Copies]
    /\ attached \in [Users -> BOOLEAN]
    /\ save \in [Saves -> Save]

(* A load that is asked for is a load.                                     *)
LEMMA AsksTyped ==
    ASSUME BrowsersTypeOK, NEW u \in Users, NEW shown, Asks(u, shown)
    PROVE  load' \in [Loads -> Load]
<1>1. PICK l \in Loads :
          load' = [load EXCEPT ![l] =
              [by |-> u, tags |-> [f \in Files |-> IF f \in shown THEN Unread ELSE Unlisted]]]
    BY DEF Asks
<1>2. [by |-> u, tags |-> [f \in Files |-> IF f \in shown THEN Unread ELSE Unlisted]] \in Load
    BY DEF Load
<1> QED BY <1>1, <1>2 DEF BrowsersTypeOK

(* A save that is sent is a save.                                          *)
LEMMA SendsTyped ==
    ASSUME BrowsersTypeOK, NEW u \in Users, NEW tags \in SUBSET TagIds, NEW off \in SUBSET TagIds,
           Sends(u, tags, off)
    PROVE  save' \in [Saves -> Save]
<1>1. PICK r \in Saves :
          save' = [save EXCEPT ![r] =
              [at |-> "sent", by |-> u, file |-> file[u], tags |-> tags, off |-> off]]
    BY DEF Sends
<1>2. [at |-> "sent", by |-> u, file |-> file[u], tags |-> tags, off |-> off] \in Save
    BY DEF BrowsersTypeOK, Save, Copies
<1> QED BY <1>1, <1>2 DEF BrowsersTypeOK

(* The tags of a file are tags.                                            *)
LEMMA TagsOfTyped == \A f : TagsOf(f) \in SUBSET TagIds
    BY DEF TagsOf

(* The steps of a save keep the types of the browsers.                     *)
LEMMA HandleTyped ==
    ASSUME BrowsersTypeOK, NEW r \in Saves, Handle(r)
    PROVE  BrowsersTypeOK'
<1> USE DEF BrowsersTypeOK, viewers
<1>1. ASSUME NEW a \in {"found", "saved", "answered"}, NEW c \in Copies,
             save' = [save EXCEPT ![r] = [@ EXCEPT !.at = a, !.tags = c]]
      PROVE  save' \in [Saves -> Save]
    <2>1. [save[r] EXCEPT !.at = a, !.tags = c] \in Save
        BY DEF Save
    <2> QED BY <1>1, <2>1
<1>2. ASSUME NEW a \in {"found", "saved", "answered"}, save' = [save EXCEPT ![r].at = a]
      PROVE  save' \in [Saves -> Save]
    BY <1>2 DEF Save
<1>3. CASE FindFile(r)
    BY <1>2, <1>3 DEF FindFile
<1>4. CASE SetFileTags(r)
    BY <1>2, <1>4 DEF SetFileTags
<1>5. CASE Refuse(r)
    BY <1>1, <1>5 DEF Refuse, Copies
<1>6. CASE GetFileTags(r)
    BY <1>1, <1>6, TagsOfTyped DEF GetFileTags, Copies
<1>7. CASE TakeReply(r)
    <2>1. save[r].tags \in Copies /\ NoSave \in Save
        BY DEF Save, NoSave, Copies
    <2>2. page' \in [Users -> Copies]
        BY <1>7, <2>1 DEF TakeReply
    <2>3. list' \in [Users -> [Files -> {Unlisted} \union Copies]]
        BY <1>7, <2>1 DEF TakeReply
    <2>4. save' \in [Saves -> Save]
        BY <1>7, <2>1 DEF TakeReply
    <2> QED BY <1>7, <2>2, <2>3, <2>4 DEF TakeReply
<1> QED BY <1>3, <1>4, <1>5, <1>6, <1>7 DEF Handle

(* The steps of a load do.                                                 *)
LEMMA GoOnTyped ==
    ASSUME BrowsersTypeOK, NEW l \in Loads, GoOn(l) \/ \E f \in Files : FetchThrows(l, f)
    PROVE  BrowsersTypeOK'
<1> USE DEF BrowsersTypeOK, viewers
<1>1. NoLoad \in Load
    BY DEF NoLoad, Load
<1>2. CASE LoadEnds(l)
    <2>1. load[l].tags \in [Files -> {Unlisted} \union Copies] /\ load[l].by \in Users
        BY <1>2 DEF LoadEnds, Load
    <2> QED BY <1>1, <1>2, <2>1 DEF LoadEnds
<1>3. CASE LoadFails(l)
    BY <1>1, <1>3 DEF LoadFails
<1>4. ASSUME NEW f \in Files, NEW c \in Copies, load' = [load EXCEPT ![l].tags[f] = c]
      PROVE  load' \in [Loads -> Load]
    BY <1>4 DEF Load
<1>5. ASSUME NEW f \in Files, FetchTags(l, f) PROVE BrowsersTypeOK'
    <2>1. PICK c \in {Broken} \union {TagsOf(f)} : load' = [load EXCEPT ![l].tags[f] = c]
        BY <1>5 DEF FetchTags
    <2>2. c \in Copies
        BY <2>1, TagsOfTyped DEF Copies
    <2> QED BY <1>4, <1>5, <2>1, <2>2 DEF FetchTags
<1>6. ASSUME NEW f \in Files, FetchThrows(l, f) PROVE BrowsersTypeOK'
    <2>1. {} \in Copies
        BY DEF Copies
    <2> QED BY <1>4, <1>6, <2>1 DEF FetchThrows
<1> QED BY <1>2, <1>3, <1>5, <1>6 DEF GoOn

(* A click does.                                                           *)
LEMMA ClickTyped ==
    ASSUME TagsTypeOK, BrowsersTypeOK, NEW u \in Users, Click(u)
    PROVE  save' \in [Saves -> Save]
<1>1. page[u] \in SUBSET TagIds
    BY DEF Click, BrowsersTypeOK, Copies
<1>2. (1..lastTag) \subseteq TagIds
    BY TagsAssumption DEF TagIds, TagsTypeOK
<1>3. ASSUME NEW t \in (1..lastTag) \ page[u], Sends(u, page[u] \union {t}, {})
      PROVE  save' \in [Saves -> Save]
    <2>1. page[u] \union {t} \in SUBSET TagIds
        BY <1>1, <1>2
    <2> QED BY <1>3, <2>1, SendsTyped
<1>4. ASSUME NEW t \in page[u], Sends(u, page[u] \ {t}, {t})
      PROVE  save' \in [Saves -> Save]
    <2>1. page[u] \ {t} \in SUBSET TagIds /\ {t} \in SUBSET TagIds
        BY <1>1
    <2> QED BY <1>4, <2>1, SendsTyped
<1> QED BY <1>3, <1>4 DEF Click

(* All a user does does.                                                   *)
LEMMA GestureTyped ==
    ASSUME TagsTypeOK, BrowsersTypeOK, NEW u \in Users, Gesture(u)
    PROVE  BrowsersTypeOK'
<1> USE DEF viewers
<1>1. CASE Click(u)
    BY <1>1, ClickTyped DEF Click, BrowsersTypeOK
<1>2. CASE ListUntagged(u)
    BY <1>2 DEF ListUntagged, BrowsersTypeOK, Copies
<1>3. ASSUME NEW f \in Files, Open(u, f) PROVE BrowsersTypeOK'
    BY <1>3 DEF Open, Show, BrowsersTypeOK
<1>4. ASSUME NEW shown, LoadFiles(u, shown) PROVE BrowsersTypeOK'
    BY <1>4, AsksTyped DEF LoadFiles, BrowsersTypeOK
<1>5. ASSUME NEW shown, Close(u, shown) PROVE BrowsersTypeOK'
    <2>1. load' \in [Loads -> Load]
        BY <1>5, AsksTyped DEF Close, BrowsersTypeOK
    <2> QED BY <1>5, <2>1 DEF Close, Show, BrowsersTypeOK, Copies
<1> QED BY <1>1, <1>2, <1>3, <1>4, <1>5 DEF Gesture

(* Only the transaction of a save writes to the database.                  *)
LEMMA BrowseWrites ==
    Browse => (\E r \in Saves : SetFileTags(r)) \/ UNCHANGED database
    BY DEF Browse, Handle, FindFile, Refuse, GetFileTags, TakeReply, GoOn, LoadEnds, LoadFails,
           FetchTags, FetchThrows, Gesture, Click, ListUntagged, Open, LoadFiles, Close

(* So the steps of the browsers keep all types.                            *)
LEMMA BrowseTyped == TagsTypeOK /\ Browse => TagsTypeOK'
<1> SUFFICES ASSUME TagsTypeOK, Browse PROVE TagsTypeOK'
    OBVIOUS
<1>1. BrowsersTypeOK
    BY DEF TagsTypeOK, BrowsersTypeOK
<1>2. BrowsersTypeOK'
    BY <1>1, HandleTyped, GoOnTyped, GestureTyped DEF Browse
<1>3. CASE UNCHANGED database
    BY <1>2, <1>3 DEF TagsTypeOK, BrowsersTypeOK, database, catVars, tagRows
<1>4. ASSUME NEW r \in Saves, SetFileTags(r) PROVE TagsTypeOK'
    <2>1. \A t \in save[r].tags : save[r].file \in Files /\ t \in TagIds
        BY <1>4 DEF SetFileTags, Insertable, TagsTypeOK, LiveTags
    <2>2. fileTags' \subseteq Files \X TagIds
        BY <1>4, <2>1 DEF SetFileTags, Replaced, TagsTypeOK
    <2> QED BY <1>2, <1>4, <2>2 DEF SetFileTags, TagsTypeOK, BrowsersTypeOK, catVars, tagRows
<1> QED BY <1>3, <1>4, BrowseWrites

(* A restart does.                                                         *)
LEMMA RestartTyped == TagsTypeOK /\ Restart => TagsTypeOK'
<1> SUFFICES ASSUME TagsTypeOK, Restart PROVE TagsTypeOK'
    OBVIOUS
<1>1. /\ catName' \in [CatIds -> CatNames \union {NoName}]
      /\ lastCat' \in 0..MaxCats
    BY MigrateTyped DEF Restart
<1>2. NoSave \in Save
    BY DEF NoSave, Save, Copies
<1> QED BY <1>1, <1>2 DEF Restart, TagsTypeOK, tagRows, viewers

(* Every step is one of three kinds.                                       *)
LEMMA UseIsStep == TagsNext => Manage \/ Browse \/ Restart
    BY DEF TagsNext, Browse

(* So every step keeps the types.                                          *)
LEMMA StepTyped == TagsTypeOK /\ [TagsNext]_tagVars => TagsTypeOK'
<1> SUFFICES ASSUME TagsTypeOK, [TagsNext]_tagVars PROVE TagsTypeOK'
    OBVIOUS
<1>1. CASE UNCHANGED tagVars
    BY <1>1 DEF TagsTypeOK, tagVars, database, catVars, tagRows, browsers, viewers
<1>2. CASE TagsNext
    BY <1>2, ManageTyped, BrowseTyped, RestartTyped, UseIsStep
<1> QED BY <1>1, <1>2

-----------------------------------------------------------------------------
(* What the foreign keys and UNIQUE (name, category_id) keep.              *)
DbInv == TagsTypeOK /\ ReferencesHold /\ NamesDiffer

(* Requests for tags, categories and files leave nothing dangling.         *)
LEMMA ManageKeeps == DbInv /\ Manage => ReferencesHold' /\ NamesDiffer'
<1> SUFFICES ASSUME DbInv, Manage PROVE ReferencesHold' /\ NamesDiffer'
    OBVIOUS
<1> USE TagsAssumption DEF DbInv, TagsTypeOK, catVars, tagRows
<1>1. CASE CreateTagCategory
    <2>1. /\ \A c \in Cats : c \in Cats'
          /\ UNCHANGED <<LiveTags, tagName, tagCat, fileTags, files>>
        BY <1>1 DEF CreateTagCategory, Cats, LiveTags
    <2> QED BY <2>1 DEF ReferencesHold, NamesDiffer
<1>2. CASE UpdateTagCategory
    <2>1. /\ \A c \in Cats : c \in Cats'
          /\ UNCHANGED <<LiveTags, tagName, tagCat, fileTags, files>>
        BY <1>2 DEF UpdateTagCategory, Cats, LiveTags
    <2> QED BY <2>1 DEF ReferencesHold, NamesDiffer
<1>3. CASE DeleteTagCategory
    <2>1. PICK c \in Cats :
              /\ catName' = [catName EXCEPT ![c] = NoName]
              /\ tagCat' = [t \in TagIds |-> IF tagCat[t] = c THEN NoCat ELSE tagCat[t]]
        BY <1>3 DEF DeleteTagCategory
    <2>2. Cats' = Cats \ {c}
        BY <2>1 DEF Cats
    <2>3. UNCHANGED <<LiveTags, tagName, fileTags, files>>
        BY <1>3 DEF DeleteTagCategory, LiveTags
    <2>4. ReferencesHold'
        BY <2>1, <2>2, <2>3 DEF ReferencesHold, LiveTags
    <2>5. NamesDiffer'
        BY <2>1, <2>3 DEF NamesDiffer, LiveTags
    <2> QED BY <2>4, <2>5
<1>4. CASE CreateTag
    <2> DEFINE new == lastTag + 1
    <2>1. new \in TagIds /\ UNCHANGED <<Cats, fileTags, files>>
        BY <1>4 DEF CreateTag, Cats, TagIds
    <2>2. PICK n \in Names, c \in CatIds \union {NoCat} :
              /\ Admitted(new, n, c)
              /\ tagName' = [tagName EXCEPT ![new] = n]
              /\ tagCat' = [tagCat EXCEPT ![new] = c]
        BY <1>4 DEF CreateTag
    <2> HIDE DEF new
    <2>3. LiveTags' = LiveTags \union {new}
        BY <2>1, <2>2 DEF LiveTags
    <2>4. ReferencesHold'
        BY <2>1, <2>2, <2>3 DEF ReferencesHold, Admitted, LiveTags
    <2>5. NamesDiffer'
        BY <2>1, <2>2, <2>3 DEF NamesDiffer, Admitted, LiveTags
    <2> QED BY <2>4, <2>5
<1>5. CASE UpdateTag
    <2>1. PICK t \in LiveTags, n \in Names, c \in CatIds \union {NoCat} :
              /\ Admitted(t, n, c)
              /\ tagName' = [tagName EXCEPT ![t] = n]
              /\ tagCat' = [tagCat EXCEPT ![t] = c]
        BY <1>5 DEF UpdateTag
    <2>2. UNCHANGED <<Cats, fileTags, files>>
        BY <1>5 DEF UpdateTag, Cats
    <2>3. LiveTags' = LiveTags
        BY <2>1 DEF LiveTags
    <2>4. ReferencesHold'
        BY <2>1, <2>2, <2>3 DEF ReferencesHold, Admitted, LiveTags
    <2>5. NamesDiffer'
        BY <2>1, <2>3 DEF NamesDiffer, Admitted, LiveTags
    <2> QED BY <2>4, <2>5
<1>6. CASE DeleteTag
    <2>1. PICK t \in LiveTags : DropTag(t) /\ fileTags' = {ft \in fileTags : ft[2] # t}
        BY <1>6 DEF DeleteTag
    <2>2. UNCHANGED <<Cats, files>>
        BY <1>6 DEF DeleteTag, Cats
    <2>3. LiveTags' = LiveTags \ {t}
        BY <2>1 DEF LiveTags, DropTag
    <2>4. ReferencesHold'
        BY <2>1, <2>2, <2>3 DEF ReferencesHold, DropTag, LiveTags
    <2>5. NamesDiffer'
        BY <2>1, <2>3 DEF NamesDiffer, DropTag, LiveTags
    <2> QED BY <2>4, <2>5
<1>7. CASE MergeTags
    <2>1. PICK source \in LiveTags, into \in TagIds : MergeTags!1!(source, into)
        BY <1>7 DEF MergeTags
    <2>2. UNCHANGED <<Cats, files>>
        BY <1>7 DEF MergeTags, Cats
    <2>3. LiveTags' = LiveTags \ {source}
        BY <2>1 DEF LiveTags, DropTag
    <2>4. \A ft \in fileTags' : ft[1] \in files /\ ft[2] \in LiveTags \ {source}
        <3>1. \A ft \in Reassigned(source, into) : <<ft[1], source>> \in fileTags /\ ft[2] = into
            BY DEF Reassigned
        <3>2. \A ft \in Reassigned(source, into) : ft[1] \in files
            BY <3>1 DEF ReferencesHold
        <3>3. \A ft \in Reassigned(source, into) : ft[2] \in LiveTags \ {source}
            BY <2>1, <3>1
        <3> QED BY <2>1, <3>2, <3>3 DEF ReferencesHold
    <2>5. ReferencesHold'
        BY <2>1, <2>2, <2>3, <2>4 DEF ReferencesHold, DropTag, LiveTags
    <2>6. NamesDiffer'
        BY <2>1, <2>3 DEF NamesDiffer, DropTag, LiveTags
    <2> QED BY <2>5, <2>6
<1>8. CASE DeleteFile
    <2>1. /\ UNCHANGED <<Cats, LiveTags, tagName, tagCat>>
          /\ \A ft \in fileTags' : ft \in fileTags /\ ft[1] \in files'
        BY <1>8 DEF DeleteFile, Cats, LiveTags, ReferencesHold
    <2> QED BY <2>1 DEF ReferencesHold, NamesDiffer
<1> QED BY <1>1, <1>2, <1>3, <1>4, <1>5, <1>6, <1>7, <1>8 DEF Manage

(* Nor does any other step.                                                *)
LEMMA StepKeeps == DbInv /\ [TagsNext]_tagVars => ReferencesHold' /\ NamesDiffer'
<1> SUFFICES ASSUME DbInv, [TagsNext]_tagVars PROVE ReferencesHold' /\ NamesDiffer'
    OBVIOUS
<1>1. CASE Manage
    BY <1>1, ManageKeeps
<1>2. CASE Restart
    <2>1. /\ \A c \in Cats : c \in Cats'
          /\ UNCHANGED <<LiveTags, tagName, tagCat, fileTags, files>>
        BY <1>2, MigrateTyped DEF Restart, DbInv, LiveTags, tagRows
    <2> QED BY <2>1 DEF DbInv, ReferencesHold, NamesDiffer
<1>3. ASSUME NEW r \in Saves, SetFileTags(r) PROVE ReferencesHold' /\ NamesDiffer'
    <2>1. UNCHANGED <<Cats, LiveTags, tagName, tagCat, files>>
        BY <1>3 DEF SetFileTags, Cats, LiveTags, catVars, tagRows
    <2>2. \A ft \in {save[r].file} \X save[r].tags : ft[1] \in files /\ ft[2] \in LiveTags
        BY <1>3 DEF SetFileTags, Insertable
    <2>3. \A ft \in fileTags' : ft[1] \in files' /\ ft[2] \in LiveTags'
        BY <1>3, <2>1, <2>2 DEF SetFileTags, Replaced, DbInv, ReferencesHold
    <2> QED BY <2>1, <2>3 DEF DbInv, ReferencesHold, NamesDiffer
<1>4. CASE UNCHANGED database
    <2>1. UNCHANGED <<Cats, LiveTags, tagName, tagCat, fileTags, files>>
        BY <1>4 DEF Cats, LiveTags, database, catVars, tagRows
    <2> QED BY <2>1 DEF DbInv, ReferencesHold, NamesDiffer
<1>5. CASE UNCHANGED tagVars
    BY <1>4, <1>5 DEF tagVars
<1> QED BY <1>1, <1>2, <1>3, <1>4, <1>5, UseIsStep, BrowseWrites

(* The inductive invariant of the tables.                                  *)
LEMMA DatabaseInvariant == TagsSpec => []DbInv
<1>1. TagsInit => DbInv
    <2> SUFFICES ASSUME TagsInit PROVE ReferencesHold /\ NamesDiffer
        BY InitTyped DEF DbInv
    <2>1. LiveTags = {}
        BY TagsAssumption DEF TagsInit, LiveTags
    <2> QED BY <2>1 DEF TagsInit, ReferencesHold, NamesDiffer
<1>2. DbInv /\ [TagsNext]_tagVars => DbInv'
    BY StepTyped, StepKeeps DEF DbInv
<1> QED BY <1>1, <1>2, PTL DEF TagsSpec

(* Nothing dangles, whatever the requests and however they interleave.     *)
THEOREM ReferencesAlwaysHold == TagsSpec => []ReferencesHold
<1>1. DbInv => ReferencesHold
    BY DEF DbInv
<1> QED BY <1>1, DatabaseInvariant, PTL

(* Two tags of one category never share a name.                            *)
THEOREM NamesAlwaysDiffer == TagsSpec => []NamesDiffer
<1>1. DbInv => NamesDiffer
    BY DEF DbInv
<1> QED BY <1>1, DatabaseInvariant, PTL

-----------------------------------------------------------------------------
(* Orderly use: what the copies know, and why no tag is lost.              *)
OrderlyInv == DbInv /\ CopiesCover /\ UsersWait /\ HeirsOfMerged

(* Orderly use is use.                                                     *)
LEMMA OrderlyIsUse == OrderlyNext => TagsNext
<1>1. ASSUME NEW u \in Users, OrderlyGesture(u) PROVE Gesture(u)
    BY <1>1 DEF OrderlyGesture, Gesture
<1> QED BY <1>1 DEF OrderlyNext, TagsNext

(* Merges record what a tag became.                                        *)
LEMMA HeirsKept == DbInv /\ HeirsOfMerged /\ [TagsNext]_tagVars => HeirsOfMerged'
<1> SUFFICES ASSUME DbInv, HeirsOfMerged, [TagsNext]_tagVars PROVE HeirsOfMerged'
    OBVIOUS
<1> USE TagsAssumption DEF DbInv, TagsTypeOK
<1>1. CASE CreateTag
    <2>1. LiveTags' \subseteq LiveTags \union {lastTag + 1}
        BY <1>1 DEF CreateTag, LiveTags
    <2>2. lastTag' = lastTag + 1 /\ heirs' = heirs
        BY <1>1 DEF CreateTag
    <2> QED BY <2>1, <2>2 DEF HeirsOfMerged, TagIds, LiveTags
<1>2. CASE MergeTags
    <2>1. PICK source \in LiveTags, into \in TagIds : MergeTags!1!(source, into)
        BY <1>2 DEF MergeTags
    <2>2. LiveTags' = LiveTags \ {source} /\ lastTag' = lastTag
        BY <2>1 DEF LiveTags, DropTag
    <2>3. \A t \in TagIds : source \notin heirs[t] => heirs'[t] = heirs[t]
        BY <2>1
    <2>4. \A t \in TagIds : heirs[t] \subseteq heirs'[t]
        BY <2>1
    <2>5. ASSUME NEW t \in TagIds, t \in LiveTags' \/ t > lastTag'
          PROVE  heirs'[t] = {t}
        <3>1. t # source /\ heirs[t] = {t}
            BY <2>2, <2>5 DEF HeirsOfMerged, TagIds, LiveTags
        <3> QED BY <2>3, <3>1
    <2> QED BY <2>2, <2>4, <2>5 DEF HeirsOfMerged
<1>3. CASE UNCHANGED <<heirs, lastTag>> /\ LiveTags' \subseteq LiveTags
    BY <1>3 DEF HeirsOfMerged
<1>4. CASE UNCHANGED <<heirs, lastTag, tagName>>
    BY <1>3, <1>4 DEF LiveTags
<1>5. CASE Manage
    <2>1. DeleteTag => UNCHANGED <<heirs, lastTag>> /\ LiveTags' \subseteq LiveTags
        BY DEF DeleteTag, DropTag, LiveTags
    <2>2. UpdateTag => UNCHANGED <<heirs, lastTag>> /\ LiveTags' \subseteq LiveTags
        BY DEF UpdateTag, LiveTags
    <2> QED BY <1>1, <1>2, <1>3, <1>4, <1>5, <2>1, <2>2
            DEF Manage, CreateTagCategory, UpdateTagCategory, DeleteTagCategory, DeleteFile, tagRows
<1>6. CASE Restart
    BY <1>4, <1>6 DEF Restart, tagRows
<1>7. CASE Browse
    <2>1. UNCHANGED tagRows
        BY <1>7, BrowseWrites DEF SetFileTags, database
    <2> QED BY <1>4, <2>1 DEF tagRows
<1>8. CASE UNCHANGED tagVars
    BY <1>4, <1>8 DEF tagVars, database, tagRows
<1> QED BY <1>5, <1>6, <1>7, <1>8, UseIsStep

-----------------------------------------------------------------------------
(* A copy that knows the tags of file f still does after the step.         *)
StaysCovered(f) == \A c \in {Unlisted, Unread} \union Copies : Covers(c, f) => Covers(c, f)'

(* A file that gets no new tag leaves copies covering it.                  *)
LEMMA FewerStayCovered ==
    ASSUME heirs' = heirs, NEW f, TagsOf(f)' \subseteq TagsOf(f)
    PROVE  StaysCovered(f)
    BY DEF StaysCovered, Covers, Known

(* Seen from a copy, the tags of a file only become fewer or are merged.   *)
LEMMA ManageCovers == DbInv /\ Manage => \A f \in Files : StaysCovered(f)
<1> SUFFICES ASSUME DbInv, Manage PROVE \A f \in Files : StaysCovered(f)
    OBVIOUS
<1> USE DEF DbInv, TagsTypeOK
<1>1. CASE MergeTags
    <2>1. PICK source \in LiveTags, into \in TagIds : MergeTags!1!(source, into)
        BY <1>1 DEF MergeTags
    <2>2. ASSUME NEW f \in Files, NEW c \in SUBSET TagIds, TagsOf(f) \subseteq Known(c),
                 NEW t \in TagIds,
                 <<f, t>> \in fileTags'
          PROVE  \E s \in c : t \in heirs'[s]
        <3>1. source \in TagIds
            BY DEF LiveTags
        <3>2. PICK q \in TagIds : <<f, q>> \in fileTags /\ (t = q \/ (t = into /\ q = source))
            BY <2>1, <2>2, <3>1 DEF Reassigned
        <3>3. PICK s \in c : q \in heirs[s]
            BY <2>2, <3>2 DEF TagsOf, Known
        <3>4. t \in heirs'[s]
            BY <2>1, <3>2, <3>3
        <3> QED BY <3>3, <3>4
    <2>3. ASSUME NEW f \in Files, NEW c \in SUBSET TagIds, TagsOf(f) \subseteq Known(c)
          PROVE  TagsOf(f)' \subseteq Known(c)'
        BY <2>2, <2>3 DEF TagsOf, Known
    <2> QED BY <2>3 DEF StaysCovered, Covers, Copies
<1>2. CASE heirs' = heirs /\ fileTags' \subseteq fileTags
    <2>1. \A f \in Files : TagsOf(f)' \subseteq TagsOf(f)
        BY <1>2 DEF TagsOf
    <2> QED BY <1>2, <2>1, FewerStayCovered
<1>3. MergeTags \/ (heirs' = heirs /\ fileTags' \subseteq fileTags)
    BY DEF Manage, CreateTagCategory, UpdateTagCategory, DeleteTagCategory, CreateTag, UpdateTag,
           DeleteTag, DeleteFile, tagRows
<1> QED BY <1>1, <1>2, <1>3

(* Requests for tags, categories and files do not reach the browsers.      *)
LEMMA ManageLeavesBrowsers == Manage => UNCHANGED <<list, load, file, page, attached, save>>
    BY DEF Manage, CreateTagCategory, UpdateTagCategory, DeleteTagCategory, CreateTag, UpdateTag,
           DeleteTag, MergeTags, DeleteFile, browsers, viewers

(* Copies that do not change go on knowing their files' tags.              *)
LEMMA StillCopiesCover ==
    ASSUME TagsTypeOK, CopiesCover, SavesAreShown, \A f \in Files : StaysCovered(f),
           UNCHANGED <<list, load, file, page, attached, save>>
    PROVE  CopiesCover'
<1> USE DEF TagsTypeOK
<1>1. ListsCover'
    BY DEF CopiesCover, ListsCover, StaysCovered
<1>2. LoadsCover'
    BY DEF CopiesCover, LoadsCover, StaysCovered, Load
<1>3. ASSUME NEW r \in Saves, save[r].at # "free"
      PROVE  save[r].file \in Files /\ save[r].tags \in Copies /\ save[r].off \in SUBSET TagIds
    BY <1>3 DEF SavesAreShown, Save
<1>4. ASSUME NEW r \in Saves, save[r].at \in {"sent", "found"}
      PROVE  Covers(save[r].tags \union save[r].off, save[r].file)'
    <2>1. save[r].tags \union save[r].off \in SUBSET TagIds
        BY <1>3, <1>4 DEF SavesAreShown, Copies
    <2>2. Covers(save[r].tags \union save[r].off, save[r].file)
        BY <1>4 DEF CopiesCover, SavesCover
    <2> QED BY <1>3, <1>4, <2>1, <2>2 DEF StaysCovered, Copies
<1>5. ASSUME NEW r \in Saves, save[r].at = "answered" PROVE Covers(save[r].tags, save[r].file)'
    BY <1>3, <1>5 DEF CopiesCover, SavesCover, StaysCovered
<1>6. SavesCover'
    BY <1>4, <1>5 DEF SavesCover
<1> QED BY <1>1, <1>2, <1>6 DEF CopiesCover

(* Browsers that do not change go on waiting.                              *)
LEMMA StillUsersWait ==
    ASSUME UsersWait, UNCHANGED <<list, load, file, page, attached, save>>
    PROVE  UsersWait'
    BY DEF UsersWait, ViewersShowLists, SavesAreShown, ListsApart, Loading, Listed

(* Together: these requests keep what orderly use brings about.            *)
LEMMA ManageWaits == OrderlyInv /\ Manage => CopiesCover' /\ UsersWait'
    BY ManageCovers, ManageLeavesBrowsers, StillCopiesCover, StillUsersWait
       DEF OrderlyInv, DbInv, UsersWait

-----------------------------------------------------------------------------
(* The steps of a save.                                                    *)

(* Nothing changes but how far save r is and what it carries.              *)
Advances(r) ==
    /\ UNCHANGED <<list, load, file, page, attached, heirs>>
    /\ \A q \in Saves \ {r} : save'[q] = save[q]
    /\ save'[r].by = save[r].by /\ save'[r].file = save[r].file /\ save'[r].off = save[r].off
    /\ save[r].at # "free" /\ save'[r].at # "free"

(* What the steps of the handler have in common.                           *)
LEMMA AdvancesTyped ==
    ASSUME TagsTypeOK, NEW r \in Saves, FindFile(r) \/ SetFileTags(r) \/ Refuse(r) \/ GetFileTags(r)
    PROVE  Advances(r)
<1> USE DEF Advances, TagsTypeOK, Save, viewers
<1>1. CASE FindFile(r)
    BY <1>1 DEF FindFile, database, tagRows
<1>2. CASE SetFileTags(r)
    BY <1>2 DEF SetFileTags, tagRows
<1>3. CASE Refuse(r)
    BY <1>3 DEF Refuse, database, tagRows
<1>4. CASE GetFileTags(r)
    BY <1>4 DEF GetFileTags, database, tagRows
<1> QED BY <1>1, <1>2, <1>3, <1>4

(* They leave the user waiting.                                            *)
LEMMA AdvancesWaits ==
    ASSUME TagsTypeOK, UsersWait, NEW r \in Saves, Advances(r),
           save'[r].at \in {"sent", "found"} => save'[r].tags # Broken
    PROVE  UsersWait'
<1>1. ViewersShowLists'
    BY DEF UsersWait, ViewersShowLists, Loading, Advances
<1>2. ListsApart'
    BY DEF UsersWait, ListsApart, Listed, Advances
<1>3. \A q \in Saves : save'[q].by = save[q].by /\ save'[q].file = save[q].file
    BY DEF Advances
<1>4. SavesAreShown'
    BY <1>3 DEF UsersWait, SavesAreShown, Advances
<1> QED BY <1>1, <1>2, <1>4 DEF UsersWait

(* No other browser, load or save has anything to do with its file.        *)
LEMMA NoOtherCopy ==
    ASSUME TagsTypeOK, UsersWait, NEW r \in Saves, save[r].at # "free"
    PROVE  /\ save[r].file \in Files /\ save[r].by \in Users
           /\ \A v \in Users \ {save[r].by} : list[v][save[r].file] = Unlisted
           /\ \A l \in Loads : load[l].tags[save[r].file] = Unlisted
           /\ \A q \in Saves \ {r} : save[q].at # "free" => save[q].file # save[r].file
<1> USE DEF TagsTypeOK
<1>1. PICK u \in Users, f \in Files : u = save[r].by /\ f = save[r].file /\ f = file[u]
    BY DEF UsersWait, SavesAreShown
<1>2. f \in Listed(u) /\ ~Loading(u)
    BY <1>1, TagsAssumption DEF UsersWait, ViewersShowLists, Listed
<1>3. ASSUME NEW v \in Users \ {u} PROVE f \notin Listed(v)
    BY <1>1, <1>2 DEF UsersWait, ListsApart
<1>4. ASSUME NEW l \in Loads PROVE load[l].tags[f] = Unlisted
    <2>1. load[l].by \in Users \union {NoUser}
        BY DEF Load
    <2>2. load[l].by # u
        BY <1>2 DEF Loading
    <2> QED BY <1>3, <2>1, <2>2 DEF Listed, UsersWait, ListsApart
<1>5. ASSUME NEW q \in Saves \ {r}, save[q].at # "free" PROVE save[q].file # f
    <2>1. PICK v \in Users : v = save[q].by /\ v # u /\ save[q].file = file[v] /\ file[v] # NoFile
        BY <1>1, <1>5, TagsAssumption DEF UsersWait, SavesAreShown
    <2>2. file[v] \in Files /\ list[v][file[v]] # Unlisted
        BY <2>1 DEF UsersWait, ViewersShowLists
    <2> QED BY <1>3, <2>1, <2>2 DEF Listed
<1> QED BY <1>1, <1>3, <1>4, <1>5 DEF Listed

(* What covers the files of others goes on doing so.                       *)
LEMMA OthersCover ==
    ASSUME OrderlyInv, NEW r \in Saves, Advances(r),
           \A f \in Files \ {save[r].file} : StaysCovered(f)
    PROVE  /\ LoadsCover'
           /\ \A u \in Users, f \in Files : u # save[r].by \/ f # save[r].file =>
                 \/ Covers(list[u][f], f)'
                 \/ \E q \in Saves : /\ save'[q].by = u /\ save'[q].file = f
                                     /\ save'[q].at \in {"saved", "answered"}
           /\ \A q \in Saves \ {r} :
                 /\ save[q].at \in {"sent", "found"}
                       => Covers(save[q].tags \union save[q].off, save[q].file)'
                 /\ save[q].at = "answered" => Covers(save[q].tags, save[q].file)'
<1> USE DEF OrderlyInv, DbInv, TagsTypeOK
<1>0. /\ save[r].file \in Files /\ save[r].by \in Users
      /\ \A v \in Users \ {save[r].by} : list[v][save[r].file] = Unlisted
      /\ \A l \in Loads : load[l].tags[save[r].file] = Unlisted
      /\ \A q \in Saves \ {r} : save[q].at # "free" => save[q].file # save[r].file
    BY NoOtherCopy DEF Advances
<1>1. ASSUME NEW l \in Loads, NEW f \in Files PROVE Covers(load[l].tags[f], f)'
    <2>1. load'[l].tags[f] = load[l].tags[f] /\ load[l].tags[f] \in {Unlisted, Unread} \union Copies
        BY DEF Advances, Load
    <2>2. CASE f = save[r].file
        BY <1>0, <2>1, <2>2 DEF Covers
    <2>3. CASE f # save[r].file
        BY <2>1, <2>3 DEF CopiesCover, LoadsCover, StaysCovered, Covers
    <2> QED BY <2>2, <2>3
<1>2. ASSUME NEW u \in Users, NEW f \in Files, u # save[r].by \/ f # save[r].file
      PROVE  \/ Covers(list[u][f], f)'
             \/ \E q \in Saves : /\ save'[q].by = u /\ save'[q].file = f
                                 /\ save'[q].at \in {"saved", "answered"}
    <2>1. list'[u][f] = list[u][f] /\ list[u][f] \in {Unlisted} \union Copies
        BY DEF Advances
    <2>2. CASE f = save[r].file
        BY <1>0, <1>2, <2>1, <2>2 DEF Covers
    <2>3. CASE f # save[r].file /\ Covers(list[u][f], f)
        BY <2>1, <2>3 DEF StaysCovered, Covers
    <2>4. CASE ~Covers(list[u][f], f)
        <3>1. PICK q \in Saves : /\ save[q].by = u /\ save[q].file = f
                                /\ save[q].at \in {"saved", "answered"}
            BY <2>4 DEF CopiesCover, ListsCover
        <3>2. save'[q] = save[q]
            BY <1>2, <3>1 DEF Advances
        <3> QED BY <3>1, <3>2
    <2> QED BY <2>2, <2>3, <2>4
<1>3. ASSUME NEW q \in Saves \ {r}
      PROVE  /\ save'[q] = save[q]
             /\ save[q].at \in {"sent", "found"}
                   => Covers(save[q].tags \union save[q].off, save[q].file)'
             /\ save[q].at = "answered" => Covers(save[q].tags, save[q].file)'
    <2>1. save'[q] = save[q] /\ save[q].tags \in Copies /\ save[q].off \in SUBSET TagIds
        BY <1>3 DEF Advances, Save
    <2>2. save[q].at # "free" => save[q].file \in Files \ {save[r].file}
        BY <1>0, <1>3 DEF UsersWait, SavesAreShown, Save
    <2>3. save[q].at \in {"sent", "found"} => save[q].tags \union save[q].off \in SUBSET TagIds
        BY <2>1 DEF UsersWait, SavesAreShown, Copies
    <2>4. save[q].at \in {"sent", "found"}
              => Covers(save[q].tags \union save[q].off, save[q].file)'
        BY <2>1, <2>2, <2>3 DEF CopiesCover, SavesCover, StaysCovered, Covers, Copies
    <2>5. save[q].at = "answered" => Covers(save[q].tags, save[q].file)'
        BY <2>1, <2>2 DEF CopiesCover, SavesCover, StaysCovered, Covers
    <2> QED BY <2>1, <2>4, <2>5
<1> QED BY <1>1, <1>2, <1>3 DEF LoadsCover

(* More tags know more.                                                    *)
LEMMA KnownGrows ==
    ASSUME NEW c, NEW d, c \subseteq d
    PROVE  Known(c) \subseteq Known(d)
    BY DEF Known

(* The tags of a file know themselves.                                     *)
LEMMA OwnTagsKnown ==
    ASSUME HeirsOfMerged, NEW f
    PROVE  TagsOf(f) \subseteq Known(TagsOf(f))
    BY DEF HeirsOfMerged, TagsOf, Known

(* The handler finds the file.                                             *)
LEMMA FindFileKeeps ==
    ASSUME OrderlyInv, NEW r \in Saves, FindFile(r)
    PROVE  CopiesCover' /\ UsersWait'
<1> USE DEF OrderlyInv, DbInv
<1>1. Advances(r) /\ UNCHANGED <<fileTags, heirs>>
    BY AdvancesTyped DEF FindFile, database, tagRows
<1>2. save'[r] = [save[r] EXCEPT !.at = "found"] /\ save[r].at = "sent"
    BY DEF FindFile, TagsTypeOK, Save
<1>3. save'[r].tags = save[r].tags /\ save'[r].at = "found" /\ save[r].tags # Broken
    BY <1>2 DEF TagsTypeOK, Save, UsersWait, SavesAreShown
<1>4. UsersWait'
    BY <1>1, <1>3, AdvancesWaits
<1>5. \A f \in Files : StaysCovered(f)
    BY <1>1 DEF StaysCovered, Covers, TagsOf, Known
<1>6. LoadsCover'
    BY <1>1, <1>5, OthersCover
<1>7. ListsCover'
    <2>1. \A q \in Saves : save[q].at \in {"saved", "answered"} => save'[q] = save[q]
        BY <1>1, <1>2 DEF Advances
    <2>2. list' = list
        BY <1>1 DEF Advances
    <2> QED BY <1>1, <2>1, <2>2 DEF CopiesCover, ListsCover, Covers, TagsOf, Known
<1>8. SavesCover'
    <2>1. Covers(save[r].tags \union save[r].off, save[r].file)
        BY <1>2 DEF CopiesCover, SavesCover
    <2>2. Covers(save[r].tags \union save[r].off, save[r].file)'
        BY <1>1, <1>3, <2>1 DEF Advances, Covers, TagsOf, Known
    <2>3. \A q \in Saves \ {r} : save'[q] = save[q]
        BY <1>1 DEF Advances
    <2> QED BY <1>1, <1>3, <1>5, <2>2, <2>3, OthersCover DEF SavesCover
<1> QED BY <1>4, <1>6, <1>7, <1>8 DEF CopiesCover

(* A reply, of tags or an error: what it carries covers the file.          *)
LEMMA AnswerKeeps ==
    ASSUME OrderlyInv, NEW r \in Saves, Refuse(r) \/ GetFileTags(r)
    PROVE  CopiesCover' /\ UsersWait'
<1> USE DEF OrderlyInv, DbInv
<1>1. Advances(r) /\ UNCHANGED <<fileTags, heirs>>
    BY AdvancesTyped DEF Refuse, GetFileTags, database, tagRows
<1>2. /\ save'[r].at = "answered"
      /\ save'[r].tags = Broken \/ save'[r].tags = TagsOf(save[r].file)
    BY DEF Refuse, GetFileTags, TagsTypeOK, Save
<1>3. UsersWait'
    BY <1>1, <1>2, AdvancesWaits
<1>4. \A f \in Files : StaysCovered(f)
    BY <1>1 DEF StaysCovered, Covers, TagsOf, Known
<1>5. LoadsCover'
    BY <1>1, <1>4, OthersCover
<1>6. ListsCover'
    <2>1. \A q \in Saves : /\ save'[q].by = save[q].by /\ save'[q].file = save[q].file
                           /\ save[q].at \in {"saved", "answered"}
                                 => save'[q].at \in {"saved", "answered"}
        BY <1>1, <1>2 DEF Advances
    <2>2. list' = list
        BY <1>1 DEF Advances
    <2> QED BY <1>1, <2>1, <2>2 DEF CopiesCover, ListsCover, Covers, TagsOf, Known
<1>7. SavesCover'
    <2>1. Covers(save[r].tags, save[r].file)'
        BY <1>1, <1>2, OwnTagsKnown DEF Advances, Covers, TagsOf, Known
    <2>2. \A q \in Saves \ {r} : save'[q] = save[q]
        BY <1>1 DEF Advances
    <2> QED BY <1>1, <1>2, <1>4, <2>1, <2>2, OthersCover DEF SavesCover
<1> QED BY <1>3, <1>5, <1>6, <1>7 DEF CopiesCover

(* The transaction of a save: its copy now is what the file has.           *)
LEMMA SetFileTagsKeeps ==
    ASSUME OrderlyInv, NEW r \in Saves, SetFileTags(r)
    PROVE  CopiesCover' /\ UsersWait'
<1> USE DEF OrderlyInv, DbInv
<1>1. Advances(r) /\ UNCHANGED heirs
    BY AdvancesTyped DEF Advances
<1>2. save'[r].at = "saved"
    BY DEF SetFileTags, TagsTypeOK, Save
<1>3. UsersWait'
    BY <1>1, <1>2, AdvancesWaits
<1>4. \A f \in Files \ {save[r].file} : StaysCovered(f)
    <2>1. ASSUME NEW f \in Files \ {save[r].file} PROVE TagsOf(f)' = TagsOf(f)
        BY <2>1 DEF SetFileTags, Replaced, TagsOf
    <2> QED BY <1>1, <2>1 DEF StaysCovered, Covers, Known
<1>5. LoadsCover'
    BY <1>1, <1>4, OthersCover
<1>6. ListsCover'
    <2>1. save'[r].by = save[r].by /\ save'[r].file = save[r].file
        BY <1>1 DEF Advances
    <2> QED BY <1>1, <1>2, <1>4, <2>1, OthersCover DEF ListsCover
<1>7. SavesCover'
    <2>1. \A q \in Saves \ {r} : save'[q] = save[q]
        BY <1>1 DEF Advances
    <2> QED BY <1>1, <1>2, <1>4, <2>1, OthersCover DEF SavesCover
<1> QED BY <1>3, <1>5, <1>6, <1>7 DEF CopiesCover

(* Nothing about the tags of files changes: copies know what they knew.    *)
LEMMA SameTags ==
    ASSUME UNCHANGED <<fileTags, heirs>>
    PROVE  \A c, f : Covers(c, f)' = Covers(c, f)
    BY DEF Covers, TagsOf, Known

(* The reply reaches the page and the list of its own file.                *)
LEMMA TakeReplyKeeps ==
    ASSUME OrderlyInv, NEW r \in Saves, TakeReply(r)
    PROVE  CopiesCover' /\ UsersWait'
<1> USE DEF OrderlyInv, DbInv
<1>1. PICK u \in Users, f \in Files, c \in Copies :
          /\ u = save[r].by /\ f = save[r].file /\ f = file[u] /\ c = save[r].tags
          /\ save[r].at = "answered"
    BY DEF TakeReply, UsersWait, SavesAreShown, TagsTypeOK, Save
<1>2. /\ attached[u] /\ ~Loading(u) /\ f # NoFile /\ page[u] = list[u][f] /\ page[u] # Unlisted
      /\ c # Unlisted
    BY <1>1, TagsAssumption DEF UsersWait, ViewersShowLists, Copies
<1>3. /\ list' = [list EXCEPT ![u][f] = c] /\ page' = [page EXCEPT ![u] = c]
      /\ save' = [save EXCEPT ![r] = NoSave]
      /\ UNCHANGED <<fileTags, heirs, load, file, attached>>
    BY <1>1, <1>2 DEF TakeReply, database, tagRows
<1>4. \A d, g : Covers(d, g)' = Covers(d, g)
    BY <1>3, SameTags
<1>5. /\ \A v \in Users, g \in Files : list'[v][g] = IF v = u /\ g = f THEN c ELSE list[v][g]
      /\ \A v \in Users : page'[v] = IF v = u THEN c ELSE page[v]
      /\ \A q \in Saves : save'[q] = IF q = r THEN NoSave ELSE save[q]
    BY <1>3 DEF TagsTypeOK
<1>6. ListsCover'
    <2>1. ASSUME NEW v \in Users, NEW g \in Files
          PROVE  \/ Covers(list[v][g], g)'
                 \/ \E q \in Saves : /\ save'[q].by = v /\ save'[q].file = g
                                     /\ save'[q].at \in {"saved", "answered"}
        <3>1. CASE v = u /\ g = f
            BY <1>1, <1>4, <1>5, <3>1 DEF CopiesCover, SavesCover
        <3>2. CASE ~(v = u /\ g = f)
            <4>1. CASE Covers(list[v][g], g)
                BY <1>4, <1>5, <3>2, <4>1
            <4>2. CASE ~Covers(list[v][g], g)
                <5>1. PICK q \in Saves : /\ save[q].by = v /\ save[q].file = g
                                        /\ save[q].at \in {"saved", "answered"}
                    BY <4>2 DEF CopiesCover, ListsCover
                <5>2. save'[q] = save[q]
                    BY <1>1, <1>5, <3>2, <5>1
                <5> QED BY <5>1, <5>2
            <4> QED BY <4>1, <4>2
        <3> QED BY <3>1, <3>2
    <2> QED BY <2>1 DEF ListsCover
<1>7. LoadsCover'
    BY <1>3, <1>4 DEF CopiesCover, LoadsCover
<1>8. SavesCover'
    BY <1>4, <1>5 DEF CopiesCover, SavesCover, NoSave
<1>9. ViewersShowLists'
    <2>1. ASSUME NEW v \in Users, file[v] # NoFile
          PROVE  page'[v] = list'[v][file[v]] /\ page'[v] # Unlisted
        <3>1. file[v] \in Files
            BY <2>1 DEF TagsTypeOK
        <3> QED BY <1>1, <1>2, <1>5, <2>1, <3>1 DEF UsersWait, ViewersShowLists
    <2> QED BY <1>3, <2>1 DEF UsersWait, ViewersShowLists, Loading
<1>10. SavesAreShown'
    BY <1>3, <1>5 DEF UsersWait, SavesAreShown, NoSave
<1>11. ListsApart'
    <2>1. ASSUME NEW v \in Users PROVE Listed(v)' = Listed(v)
        BY <1>2, <1>3, <1>5 DEF Listed
    <2> QED BY <1>3, <2>1 DEF UsersWait, ListsApart
<1> QED BY <1>6, <1>7, <1>8, <1>9, <1>10, <1>11 DEF CopiesCover, UsersWait

(* All steps of a save.                                                    *)
LEMMA HandleKeeps ==
    ASSUME OrderlyInv, NEW r \in Saves, Handle(r)
    PROVE  CopiesCover' /\ UsersWait'
    BY FindFileKeeps, AnswerKeeps, SetFileTagsKeeps, TakeReplyKeeps DEF Handle

-----------------------------------------------------------------------------
(* The steps of a load.                                                    *)
LEMMA LoadEndsKeeps ==
    ASSUME OrderlyInv, NEW l \in Loads, LoadEnds(l)
    PROVE  CopiesCover' /\ UsersWait'
<1> USE DEF OrderlyInv, DbInv
<1>1. PICK u \in Users : u = load[l].by
    BY DEF LoadEnds, TagsTypeOK, Load
<1>2. file[u] = NoFile
    BY <1>1 DEF UsersWait, ViewersShowLists, Loading
<1>3. /\ \A v \in Users : list'[v] = IF v = u THEN load[l].tags ELSE list[v]
      /\ \A v \in Users : attached'[v] = IF v = u THEN FALSE ELSE attached[v]
      /\ \A k \in Loads : load'[k] = IF k = l THEN NoLoad ELSE load[k]
      /\ UNCHANGED <<fileTags, heirs, file, page, save>>
    BY <1>1 DEF LoadEnds, TagsTypeOK, database, tagRows
<1>4. \A d, g : Covers(d, g)' = Covers(d, g)
    BY <1>3, SameTags
<1>5. ListsCover'
    BY <1>3, <1>4 DEF CopiesCover, ListsCover, LoadsCover
<1>6. LoadsCover'
    BY <1>3, <1>4 DEF CopiesCover, LoadsCover, NoLoad, Covers
<1>7. SavesCover'
    BY <1>3, <1>4 DEF CopiesCover, SavesCover
<1>8. ViewersShowLists'
    <2>1. \A v \in Users : Loading(v)' => Loading(v)
        BY <1>3, TagsAssumption DEF Loading, NoLoad
    <2>2. \A v \in Users : file'[v] # NoFile => v # u
        BY <1>2, <1>3
    <2> QED BY <1>3, <2>1, <2>2 DEF UsersWait, ViewersShowLists
<1>9. SavesAreShown'
    BY <1>3 DEF UsersWait, SavesAreShown
<1>10. ListsApart'
    <2>1. ASSUME NEW v \in Users PROVE Listed(v)' \subseteq Listed(v)
        BY <1>1, <1>3, TagsAssumption DEF Listed, NoLoad
    <2> QED BY <1>3, <2>1 DEF UsersWait, ListsApart, NoLoad
<1> QED BY <1>5, <1>6, <1>7, <1>8, <1>9, <1>10 DEF CopiesCover, UsersWait

(* A load that goes on lists no more files than it did.                    *)
LEMMA FetchKeeps ==
    ASSUME OrderlyInv, NEW l \in Loads, LoadFails(l) \/ \E f \in Files : FetchTags(l, f)
    PROVE  CopiesCover' /\ UsersWait'
<1> USE DEF OrderlyInv, DbInv
<1>1. UNCHANGED <<fileTags, heirs, list, file, page, attached, save>>
    BY DEF FetchTags, LoadFails, database, tagRows, viewers
<1>2. \A d, g : Covers(d, g)' = Covers(d, g)
    BY <1>1, SameTags
<1>3. /\ \A k \in Loads \ {l} : load'[k] = load[k]
      /\ load'[l].by \in {load[l].by, NoUser}
      /\ \A g \in Files : load'[l].tags[g] # Unlisted => load[l].tags[g] # Unlisted
      /\ load[l].by = NoUser => load'[l] = load[l]
      /\ load'[l].by = NoUser => \A g \in Files : load'[l].tags[g] = Unlisted
      /\ \A g \in Files : \/ load'[l].tags[g] \in {load[l].tags[g], Unlisted, Broken}
                          \/ load'[l].tags[g] = TagsOf(g)
    <2>1. CASE LoadFails(l)
        BY <2>1 DEF LoadFails, NoLoad, TagsTypeOK
    <2>2. CASE \E f \in Files : FetchTags(l, f)
        <3>0. PICK f \in Files : FetchTags(l, f)
            BY <2>2
        <3>1. PICK c \in {Broken} \union {TagsOf(f)} : load' = [load EXCEPT ![l].tags[f] = c]
            BY <3>0 DEF FetchTags
        <3>2. load[l] \in Load /\ load[l].tags[f] = Unread
            BY <3>0 DEF FetchTags, TagsTypeOK
        <3>3. load'[l] = [load[l] EXCEPT !.tags[f] = c] /\ \A k \in Loads \ {l} : load'[k] = load[k]
            BY <3>1 DEF TagsTypeOK
        <3>4. /\ load'[l].by = load[l].by
              /\ \A g \in Files : load'[l].tags[g] = IF g = f THEN c ELSE load[l].tags[g]
            BY <3>2, <3>3 DEF Load
        <3>5. load[l].by # NoUser
            BY <3>2, TagsAssumption DEF UsersWait, ListsApart
        <3> QED BY <3>1, <3>2, <3>3, <3>4, <3>5, TagsAssumption
    <2> QED BY <2>1, <2>2
<1>4. LoadsCover'
    <2>1. \A g \in Files : Covers(TagsOf(g), g) /\ Covers(Broken, g) /\ Covers(Unlisted, g)
        BY OwnTagsKnown DEF Covers
    <2> QED BY <1>2, <1>3, <2>1 DEF CopiesCover, LoadsCover
<1>5. ListsCover' /\ SavesCover'
    BY <1>1, <1>2 DEF CopiesCover, ListsCover, SavesCover
<1>6. ViewersShowLists' /\ SavesAreShown'
    <2>1. \A u \in Users : Loading(u)' => Loading(u)
        BY <1>3, TagsAssumption DEF Loading
    <2> QED BY <1>1, <2>1 DEF UsersWait, ViewersShowLists, SavesAreShown
<1>7. ListsApart'
    <2>1. ASSUME NEW v \in Users PROVE Listed(v)' \subseteq Listed(v)
        BY <1>1, <1>3, TagsAssumption DEF Listed
    <2> QED BY <1>3, <2>1 DEF UsersWait, ListsApart
<1> QED BY <1>4, <1>5, <1>6, <1>7 DEF CopiesCover, UsersWait

(* All steps of a load.                                                    *)
LEMMA GoOnKeeps ==
    ASSUME OrderlyInv, NEW l \in Loads, GoOn(l)
    PROVE  CopiesCover' /\ UsersWait'
    BY LoadEndsKeeps, FetchKeeps DEF GoOn

-----------------------------------------------------------------------------
(* What the user does.                                                     *)

(* A load that is asked for lists no file of another browser.              *)
LEMMA AsksKeeps ==
    ASSUME OrderlyInv, NEW u \in Users, NEW shown, shown \intersect ListedElsewhere(u) = {},
           Asks(u, shown), UNCHANGED <<fileTags, heirs, list>>
    PROVE  /\ LoadsCover' /\ ListsApart'
           /\ \A v \in Users : Loading(v)' => v = u \/ Loading(v)
<1> USE DEF OrderlyInv, DbInv
<1>1. PICK l \in Loads :
          /\ load[l].by = NoUser
          /\ load' = [load EXCEPT ![l] =
                [by |-> u, tags |-> [f \in Files |-> IF f \in shown THEN Unread ELSE Unlisted]]]
    BY DEF Asks
<1>2. /\ \A k \in Loads \ {l} : load'[k] = load[k]
      /\ load'[l].by = u
      /\ \A f \in Files : load'[l].tags[f] = IF f \in shown THEN Unread ELSE Unlisted
    BY <1>1 DEF TagsTypeOK
<1>3. LoadsCover'
    <2>1. \A d, g : Covers(d, g)' = Covers(d, g)
        BY SameTags
    <2>2. \A g : Covers(Unread, g) /\ Covers(Unlisted, g)
        BY DEF Covers
    <2> QED BY <1>2, <2>1, <2>2 DEF CopiesCover, LoadsCover
<1>4. ASSUME NEW v \in Users \ {u}
      PROVE  Listed(v)' \subseteq Listed(v) /\ Listed(v) \intersect shown = {}
    <2>1. Listed(v)' \subseteq Listed(v)
        BY <1>2, <1>4 DEF Listed
    <2>2. Listed(v) \subseteq ListedElsewhere(u)
        BY DEF ListedElsewhere
    <2> QED BY <2>1, <2>2
<1>5. Listed(u)' \subseteq Listed(u) \union shown
    BY <1>2, TagsAssumption DEF Listed
<1>6. ListsApart'
    <2>1. \A v, w \in Users : v # w => Listed(v)' \intersect Listed(w)' = {}
        BY <1>4, <1>5 DEF UsersWait, ListsApart
    <2>2. \A k \in Loads : load'[k].by = NoUser => \A f \in Files : load'[k].tags[f] = Unlisted
        BY <1>2, TagsAssumption DEF UsersWait, ListsApart
    <2> QED BY <2>1, <2>2 DEF ListsApart
<1> QED BY <1>2, <1>3, <1>6 DEF Loading

(* The list is loaded again.                                               *)
LEMMA LoadFilesKeeps ==
    ASSUME OrderlyInv, NEW u \in Users, NEW shown, shown \intersect ListedElsewhere(u) = {},
           file[u] = NoFile, LoadFiles(u, shown)
    PROVE  CopiesCover' /\ UsersWait'
<1> USE DEF OrderlyInv, DbInv
<1>1. UNCHANGED <<fileTags, heirs, list, file, page, attached, save>> /\ Asks(u, shown)
    BY DEF LoadFiles, database, tagRows, viewers
<1>2. ListsCover' /\ SavesCover'
    BY <1>1, SameTags DEF CopiesCover, ListsCover, SavesCover
<1>3. ViewersShowLists' /\ SavesAreShown'
    BY <1>1, AsksKeeps DEF UsersWait, ViewersShowLists, SavesAreShown
<1> QED BY <1>1, <1>2, <1>3, AsksKeeps DEF CopiesCover, UsersWait

(* The viewer is closed, with or without a new list.                       *)
LEMMA CloseKeeps ==
    ASSUME OrderlyInv, NEW u \in Users, NEW shown, shown \intersect ListedElsewhere(u) = {},
           ~Saving(u), Close(u, shown)
    PROVE  CopiesCover' /\ UsersWait'
<1> USE DEF OrderlyInv, DbInv
<1>1. /\ UNCHANGED <<fileTags, heirs, list, save>>
      /\ \A v \in Users \ {u} : UNCHANGED <<file[v], page[v], attached[v]>>
      /\ file'[u] = NoFile
      /\ Asks(u, shown) \/ load' = load
    BY DEF Close, Show, database, tagRows, TagsTypeOK
<1>2. ListsCover' /\ SavesCover'
    BY <1>1, SameTags DEF CopiesCover, ListsCover, SavesCover
<1>3. LoadsCover' /\ ListsApart' /\ \A v \in Users : Loading(v)' => v = u \/ Loading(v)
    <2>1. CASE Asks(u, shown)
        BY <1>1, <2>1, AsksKeeps
    <2>2. CASE load' = load
        BY <1>1, <2>2, SameTags DEF CopiesCover, LoadsCover, UsersWait, ListsApart, Listed, Loading
    <2> QED BY <1>1, <2>1, <2>2
<1>4. ViewersShowLists'
    BY <1>1, <1>3 DEF UsersWait, ViewersShowLists
<1>5. SavesAreShown'
    <2>1. \A r \in Saves : save[r].by # u
        BY DEF Saving
    <2> QED BY <1>1, <2>1 DEF UsersWait, SavesAreShown
<1> QED BY <1>2, <1>3, <1>4, <1>5 DEF CopiesCover, UsersWait

(* A file of the list is opened: the viewer shows what the list has.       *)
LEMMA OpenKeeps ==
    ASSUME OrderlyInv, NEW u \in Users, NEW f \in Files, ~Saving(u), ~Loading(u), Open(u, f)
    PROVE  CopiesCover' /\ UsersWait'
<1> USE DEF OrderlyInv, DbInv
<1>1. /\ UNCHANGED <<fileTags, heirs, list, load, save>>
      /\ \A v \in Users \ {u} : UNCHANGED <<file[v], page[v], attached[v]>>
      /\ file'[u] = f /\ page'[u] = list[u][f] /\ attached'[u] /\ list[u][f] # Unlisted
    BY DEF Open, Show, database, tagRows, TagsTypeOK
<1>2. CopiesCover'
    BY <1>1, SameTags DEF CopiesCover, ListsCover, LoadsCover, SavesCover
<1>3. ViewersShowLists'
    BY <1>1 DEF UsersWait, ViewersShowLists, Loading
<1>4. SavesAreShown'
    <2>1. \A r \in Saves : save[r].by # u
        BY DEF Saving
    <2> QED BY <1>1, <2>1 DEF UsersWait, SavesAreShown
<1>5. ListsApart'
    BY <1>1 DEF UsersWait, ListsApart, Listed
<1> QED BY <1>2, <1>3, <1>4, <1>5 DEF UsersWait

(* What a click adds or takes off, together with the rest, is all the page *)
(* knows.                                                                  *)
LEMMA ClickKeeps ==
    ASSUME OrderlyInv, NEW u \in Users, ~Saving(u), Click(u)
    PROVE  CopiesCover' /\ UsersWait'
<1> USE DEF OrderlyInv, DbInv
<1>1. /\ UNCHANGED <<fileTags, heirs, list, load, file, page, attached>>
      /\ file[u] # NoFile /\ page[u] # Broken
    BY DEF Click, database, tagRows, viewers
<1>2. /\ file[u] \in Files /\ page[u] = list[u][file[u]] /\ page[u] # Unlisted
      /\ page[u] \in SUBSET TagIds
    BY <1>1 DEF UsersWait, ViewersShowLists, TagsTypeOK, Copies
<1>3. PICK tags, off : /\ Sends(u, tags, off)
                       /\ tags \in SUBSET TagIds /\ off \in SUBSET TagIds
                       /\ page[u] \subseteq tags \union off
    <2> DEFINE Sent(tags, off) == /\ Sends(u, tags, off)
                                  /\ tags \in SUBSET TagIds /\ off \in SUBSET TagIds
                                  /\ page[u] \subseteq tags \union off
    <2>1. ASSUME NEW t \in (1..lastTag) \ page[u], Sends(u, page[u] \union {t}, {})
          PROVE  \E tags, off : Sent(tags, off)
        <3>1. t \in TagIds
            BY TagsAssumption DEF TagIds, TagsTypeOK
        <3>2. Sent(page[u] \union {t}, {})
            BY <1>2, <2>1, <3>1
        <3> QED BY <3>2
    <2>2. ASSUME NEW t \in page[u], Sends(u, page[u] \ {t}, {t})
          PROVE  \E tags, off : Sent(tags, off)
        <3>1. Sent(page[u] \ {t}, {t})
            BY <1>2, <2>2
        <3> QED BY <3>1
    <2> HIDE DEF Sent
    <2>3. \E tags, off : Sent(tags, off)
        BY <2>1, <2>2 DEF Click
    <2> QED BY <2>3 DEF Sent
<1>4. PICK r \in Saves :
          /\ save[r].at = "free"
          /\ save' = [save EXCEPT ![r] =
                [at |-> "sent", by |-> u, file |-> file[u], tags |-> tags, off |-> off]]
    BY <1>3 DEF Sends
<1>5. /\ \A q \in Saves \ {r} : save'[q] = save[q]
      /\ save'[r] = [at |-> "sent", by |-> u, file |-> file[u], tags |-> tags, off |-> off]
    BY <1>4 DEF TagsTypeOK
<1>6. \A d, g : Covers(d, g)' = Covers(d, g)
    BY <1>1, SameTags
<1>7. \A q \in Saves : save[q].by # u
    BY DEF Saving
<1>8. Covers(tags \union off, file[u])
    <2>1. Covers(page[u], file[u])
        BY <1>2, <1>7 DEF CopiesCover, ListsCover
    <2>2. TagsOf(file[u]) \subseteq Known(page[u])
        BY <1>1, <1>2, <2>1, TagsAssumption DEF Covers
    <2> QED BY <1>3, <2>2, KnownGrows DEF Covers
<1>9. ListsCover'
    <2>1. \A q \in Saves : save[q].at \in {"saved", "answered"} => save'[q] = save[q]
        BY <1>4, <1>5
    <2> QED BY <1>1, <1>6, <2>1 DEF CopiesCover, ListsCover
<1>10. LoadsCover'
    BY <1>1, <1>6 DEF CopiesCover, LoadsCover
<1>11. SavesCover'
    BY <1>5, <1>6, <1>8 DEF CopiesCover, SavesCover
<1>12. SavesAreShown'
    <2>1. tags # Broken
        BY <1>3, TagsAssumption
    <2> QED BY <1>1, <1>5, <1>7, <2>1 DEF UsersWait, SavesAreShown
<1>13. ViewersShowLists' /\ ListsApart'
    BY <1>1 DEF UsersWait, ViewersShowLists, ListsApart, Listed, Loading
<1> QED BY <1>9, <1>10, <1>11, <1>12, <1>13 DEF CopiesCover, UsersWait

(* All that a user does who waits.                                         *)
LEMMA GestureKeeps ==
    ASSUME OrderlyInv, NEW u \in Users, OrderlyGesture(u)
    PROVE  CopiesCover' /\ UsersWait'
<1>1. CASE Click(u)
    BY <1>1, ClickKeeps DEF OrderlyGesture
<1>2. ASSUME NEW shown \in SUBSET (files \ ListedElsewhere(u))
      PROVE  shown \intersect ListedElsewhere(u) = {}
    BY <1>2
<1> QED BY <1>1, <1>2, OpenKeeps, LoadFilesKeeps, CloseKeeps DEF OrderlyGesture

(* A restart while no save awaits its reply.                               *)
LEMMA RestartKeeps ==
    ASSUME OrderlyInv, \A u \in Users : ~Saving(u), Restart
    PROVE  CopiesCover' /\ UsersWait'
<1> USE DEF OrderlyInv, DbInv
<1>1. /\ UNCHANGED <<fileTags, heirs, list, load, file, page, attached>>
      /\ save' = [r \in Saves |-> NoSave]
    BY DEF Restart, tagRows, viewers
<1>2. \A r \in Saves : save[r].at = "free"
    BY DEF UsersWait, SavesAreShown, Saving
<1>3. ListsCover'
    BY <1>1, <1>2, SameTags DEF CopiesCover, ListsCover
<1>4. LoadsCover' /\ SavesCover'
    BY <1>1, SameTags DEF CopiesCover, LoadsCover, SavesCover, NoSave
<1>5. SavesAreShown'
    BY <1>1 DEF SavesAreShown, NoSave
<1>6. ViewersShowLists' /\ ListsApart'
    BY <1>1 DEF UsersWait, ViewersShowLists, ListsApart, Listed, Loading
<1> QED BY <1>3, <1>4, <1>5, <1>6 DEF CopiesCover, UsersWait

(* So every step of orderly use keeps what the copies know.                *)
LEMMA StepCovers == OrderlyInv /\ [OrderlyNext]_tagVars => CopiesCover' /\ UsersWait'
<1> SUFFICES ASSUME OrderlyInv, [OrderlyNext]_tagVars PROVE CopiesCover' /\ UsersWait'
    OBVIOUS
<1>1. CASE UNCHANGED tagVars
    <2>1. UNCHANGED <<list, load, file, page, attached, save, fileTags, heirs>>
        BY <1>1 DEF tagVars, database, tagRows, browsers, viewers
    <2>2. CopiesCover'
        BY <2>1, SameTags DEF OrderlyInv, CopiesCover, ListsCover, LoadsCover, SavesCover
    <2> QED BY <2>1, <2>2, StillUsersWait DEF OrderlyInv
<1>2. CASE OrderlyNext
    BY <1>2, ManageWaits, HandleKeeps, GoOnKeeps, GestureKeeps, RestartKeeps DEF OrderlyNext
<1> QED BY <1>1, <1>2

(* The inductive invariant of orderly use.                                 *)
LEMMA OrderlyInvariant == OrderlySpec => []OrderlyInv
<1>1. TagsInit => OrderlyInv
    <2> SUFFICES ASSUME TagsInit PROVE OrderlyInv
        OBVIOUS
    <2>1. LiveTags = {}
        BY TagsAssumption DEF TagsInit, LiveTags
    <2>2. ReferencesHold /\ NamesDiffer
        BY <2>1 DEF TagsInit, ReferencesHold, NamesDiffer
    <2>3. CopiesCover
        BY DEF TagsInit, CopiesCover, ListsCover, LoadsCover, SavesCover, Covers, NoLoad, NoSave
    <2>4. UsersWait
        BY TagsAssumption DEF TagsInit, UsersWait, ViewersShowLists, SavesAreShown, ListsApart,
                              Listed, Loading, NoLoad, NoSave
    <2>5. HeirsOfMerged
        BY <2>1 DEF TagsInit, HeirsOfMerged
    <2> QED BY <2>2, <2>3, <2>4, <2>5, InitTyped DEF OrderlyInv, DbInv
<1>2. OrderlyInv /\ [OrderlyNext]_tagVars => OrderlyInv'
    <2> SUFFICES ASSUME OrderlyInv, [OrderlyNext]_tagVars PROVE OrderlyInv'
        OBVIOUS
    <2>1. [TagsNext]_tagVars
        BY OrderlyIsUse
    <2> QED BY <2>1, StepTyped, StepKeeps, StepCovers, HeirsKept DEF OrderlyInv, DbInv
<1> QED BY <1>1, <1>2, PTL DEF OrderlySpec

(* The step a lost tag would take, by the request that takes it.           *)
Explained(f, t) == f \notin files' \/ Deleted(t) \/ Merged(t, f) \/ TakenOff(t, f)

(* A step that takes a tag from a file is explained.                       *)
LEMMA LossExplained ==
    ASSUME OrderlyInv, [OrderlyNext]_tagVars, NEW f \in Files, NEW t \in TagIds,
           <<f, t>> \in fileTags, <<f, t>> \notin fileTags'
    PROVE  Explained(f, t)
<1> USE DEF OrderlyInv, DbInv, TagsTypeOK
<1>1. CASE DeleteTag
    <2>1. PICK s \in LiveTags : DropTag(s) /\ fileTags' = {ft \in fileTags : ft[2] # s}
        BY <1>1 DEF DeleteTag
    <2>2. t = s /\ tagName'[t] = NoName
        BY <2>1 DEF DropTag
    <2> QED BY <1>1, <2>2 DEF DeleteTag, Deleted, Explained
<1>2. CASE MergeTags
    <2>1. PICK source \in LiveTags, into \in TagIds : MergeTags!1!(source, into)
        BY <1>2 DEF MergeTags
    <2>2. t = source
        BY <2>1
    <2>3. <<f, into>> \in fileTags'
        BY <2>1, <2>2 DEF Reassigned
    <2>4. into \in heirs'[t]
        BY <2>1, <2>2 DEF HeirsOfMerged
    <2> QED BY <2>3, <2>4 DEF Merged, Explained
<1>3. CASE DeleteFile
    BY <1>3 DEF DeleteFile, Explained
<1>4. ASSUME NEW r \in Saves, SetFileTags(r) PROVE Explained(f, t)
    <2>1. f = save[r].file /\ t \notin save[r].tags /\ save[r].at = "found"
        BY <1>4 DEF SetFileTags, Replaced
    <2>2. save[r].tags \union save[r].off \in SUBSET TagIds
        BY <2>1 DEF UsersWait, SavesAreShown, Save, Copies
    <2>3. TagsOf(f) \subseteq Known(save[r].tags \union save[r].off)
        BY <2>1, <2>2, TagsAssumption DEF CopiesCover, SavesCover, Covers
    <2>4. PICK s \in save[r].tags \union save[r].off : t \in heirs[s]
        BY <2>3 DEF TagsOf, Known
    <2>5. s \notin save[r].tags
        <3>1. s \in save[r].tags => heirs[s] = {s}
            BY <1>4, <2>2 DEF SetFileTags, Insertable, HeirsOfMerged
        <3> QED BY <2>1, <2>4, <3>1
    <2>6. save'[r].at = "saved"
        BY <1>4 DEF SetFileTags, Save
    <2> QED BY <2>1, <2>4, <2>5, <2>6 DEF TakenOff, Explained
<1>5. DeleteTag \/ MergeTags \/ DeleteFile \/ \E r \in Saves : SetFileTags(r)
    <2>1. CASE Manage
        BY <2>1 DEF Manage, CreateTagCategory, UpdateTagCategory, DeleteTagCategory, CreateTag,
                    UpdateTag, tagRows
    <2>2. CASE UNCHANGED database
        BY <2>2 DEF database
    <2>3. CASE Restart
        BY <2>3 DEF Restart
    <2> QED BY <2>1, <2>2, <2>3, OrderlyIsUse, UseIsStep, BrowseWrites DEF tagVars
<1> QED BY <1>1, <1>2, <1>3, <1>4, <1>5

(* In orderly use a file loses a tag only when the file or the tag is      *)
(* deleted, the tag is merged into one that the file gets, or a user takes *)
(* it off, however merges and deletions interleave with lists, viewers and *)
(* saves, and whatever requests are refused.                               *)
THEOREM TagsAreNotLost == OrderlySpec => NoTagLost
<1>1. OrderlyInv /\ [OrderlyNext]_tagVars
      => [\A f \in Files, t \in TagIds :
             <<f, t>> \in fileTags /\ <<f, t>> \notin fileTags'
                 => f \notin files' \/ Deleted(t) \/ Merged(t, f) \/ TakenOff(t, f)]_tagVars
    BY LossExplained DEF Explained
<1> QED BY <1>1, OrderlyInvariant, PTL DEF OrderlySpec, NoTagLost
=============================================================================
