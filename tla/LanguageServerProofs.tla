------------------------ MODULE LanguageServerProofs ------------------------
(* Proofs about LanguageServer. *)
EXTENDS LanguageServer, TLAPS

-----------------------------------------------------------------------------
(* The inductive invariant. *)

Range1 == 1..Len(queue)

IsEvent(m, f) == m.file = f /\ m.kind \in {"deleted", "changed"}
IsDoc(m, f) == m.file = f /\ m.kind \in {"didOpen", "didChange", "didClose"}

\* An event for f is still to come.
Due(f) == f \in dirty \/ \E i \in Range1 : IsEvent(queue[i], f)

\* The last event for f tells whether the file is there.
EventInv ==
    \A f \in File : f \notin dirty => \A i \in Range1 : queue[i].file = f =>
        /\ queue[i].kind = "changed" /\ disk[f] = None =>
            \E j \in (i + 1)..Len(queue) : IsEvent(queue[j], f)
        /\ queue[i].kind = "deleted" /\ disk[f] # None =>
            \E j \in (i + 1)..Len(queue) : IsEvent(queue[j], f)

\* Declarations are kept of closed files only, and are those of the file or
\* will be dropped.
CacheInv ==
    \A f \in File : cache[f] # None =>
        docs[f] = None /\ (cache[f] = disk[f] \/ Due(f))

\* The index has what is on disk, or hears of it, unless it has a text of the
\* editor that is not on disk.
IndexInv ==
    \A f \in File \ left : docs[f] \in {None, disk[f]} =>
        index[f] = disk[f] \/ Due(f)

\* The last message about a document, or the document itself, is as the
\* editor has it.
BufferInv ==
    \A f \in File :
        /\ (\A i \in Range1 : ~IsDoc(queue[i], f)) => docs[f] = buffer[f]
        /\ \A i \in Range1 :
            IsDoc(queue[i], f) /\ (\A j \in (i + 1)..Len(queue) : ~IsDoc(queue[j], f))
                => queue[i].what = buffer[f]

IsOpen(m, f) == m.file = f /\ m.kind = "didOpen"
IsClose(m, f) == m.file = f /\ m.kind = "didClose"

\* f is open when the server comes to message i.
OpenAt(f, i) ==
    \/ docs[f] # None /\ \A k \in 1..(i - 1) : ~IsClose(queue[k], f)
    \/ \E j \in 1..(i - 1) :
        /\ IsOpen(queue[j], f)
        /\ \A k \in (j + 1)..(i - 1) : ~IsClose(queue[k], f)

ChangeInv ==
    \A f \in File :
        /\ buffer[f] # None => OpenAt(f, Len(queue) + 1)
        /\ \A i \in Range1 :
            queue[i].file = f /\ queue[i].kind = "didChange" => OpenAt(f, i)

\* Settings that name everything decide the configuration alone.
Followed == Complete(wish) => cfg = Applied(Default, wish)

\* The last settings on their way are those the editor sent last.
WishInv ==
    /\ (\A i \in Range1 : queue[i].file # None) => Followed
    /\ \A i \in Range1 :
        queue[i].file = None /\ (\A j \in (i + 1)..Len(queue) : queue[j].file # None)
            => queue[i].what = wish

ShownInv ==
    \A f \in File :
        shown[f] = IF docs[f] = None THEN NoDiags
                   ELSE [text |-> docs[f], cfg |-> cfg]

UnitsInv == known = Units(index)

IInv ==
    /\ TypeOK /\ EventInv /\ CacheInv /\ IndexInv /\ BufferInv
    /\ ChangeInv /\ WishInv /\ ShownInv /\ UnitsInv

-----------------------------------------------------------------------------
(* The queue, and the tables after a look-up. *)

Longer(m) ==
    /\ Len(queue') = Len(queue) + 1
    /\ \A i \in Range1 : queue'[i] = queue[i]
    /\ queue'[Len(queue) + 1] = m

Shorter ==
    /\ Len(queue) \in Nat \ {0} /\ Len(queue') = Len(queue) - 1
    /\ \A i \in Range1' : queue'[i] = queue[i + 1]

Looked(ds, fresh) ==
    /\ index' \in [File -> Contents] /\ cache' \in [File -> Contents]
    /\ known' = Units(index')
    /\ \A f \in fresh : index'[f] = docs'[f] /\ cache'[f] = None
    /\ \A f \in File \ fresh :
        /\ \/ index'[f] \in {index[f], disk[f]}
           \/ ds[f] # None /\ index'[f] = ds[f]
        /\ \/ cache'[f] \in {None, cache[f]}
           \/ ds[f] = None /\ cache'[f] = disk[f]

\* Messages are what their kinds say.
LEMMA MessageFacts ==
    ASSUME NEW m \in Messages
    PROVE  /\ m.kind \in {"didOpen", "didChange"} => m.file \in File /\ m.what \in Text
           /\ m.kind \in {"didSave", "didClose", "deleted", "changed"}
                => m.file \in File /\ m.what = None
           /\ m.kind = "didChangeConfiguration" => m.file = None /\ m.what \in Settings
           /\ m.file = None => m.kind = "didChangeConfiguration"
BY ServerConstants DEF Messages

\* A message is sent behind those on their way.
LEMMA SendFacts ==
    ASSUME TypeOK, NEW kind, NEW file, NEW what, Send(kind, file, what)
    PROVE  Longer(Message(kind, file, what)) /\ UNCHANGED serverVars
BY DEF TypeOK, Send, Longer, Range1

\* The first message is taken.
LEMMA ReceiveFacts ==
    ASSUME TypeOK, NEW kind, Receive(kind)
    PROVE  /\ Shorter /\ UNCHANGED editorVars
           /\ Head(queue) = queue[1] /\ queue[1] \in Messages
           /\ queue[1].kind = kind /\ queue' \in Seq(Messages)
<1>1. queue \in Seq(Messages) /\ queue # <<>>
  BY DEF TypeOK, Receive
<1>2. Shorter /\ Head(queue) = queue[1]
  BY <1>1 DEF Receive, Shorter, Range1
<1>3. queue[1] \in Messages /\ queue' \in Seq(Messages)
  BY <1>1 DEF Receive
<1> QED
  BY <1>2, <1>3 DEF Receive

\* What a look-up may do to the tables.
LEMMA LookUpFacts ==
    ASSUME TypeOK, docs' \in [File -> Contents],
           NEW ds \in [File -> Contents], NEW fresh \in SUBSET File,
           NEW found, NEW again, NEW read,
           LookUp(ds, fresh, found, again, read)
    PROVE  Looked(ds, fresh)
<1>1. /\ index \in [File -> Contents] /\ cache \in [File -> Contents]
      /\ disk \in [File -> Contents] /\ None \in Contents
  BY DEF TypeOK, Contents
<1> DEFINE Kept(f) == IF f \in found \cup again THEN None ELSE cache[f]
           Indexed(f) == IF f \in fresh THEN docs'[f]
                         ELSE IF f \in again THEN TextOf(ds, f)
                         ELSE IF f \in found THEN disk[f] ELSE index[f]
           Cached(f) == IF f \in fresh THEN None
                        ELSE IF /\ f \in read /\ index'[f] # None
                                /\ ds[f] = None /\ Kept(f) = None
                             THEN disk[f] ELSE Kept(f)
<1>2. /\ index' = [f \in File |-> Indexed(f)] /\ known' = Units(index')
      /\ cache' = [f \in File |-> Cached(f)]
  BY DEF LookUp
<1>3. \A f \in File : Indexed(f) \in Contents /\ Cached(f) \in Contents
  BY <1>1 DEF TextOf
<1>4. \A f \in fresh : index'[f] = docs'[f] /\ cache'[f] = None
  BY <1>2
<1>5. ASSUME NEW f \in File \ fresh
      PROVE  Indexed(f) \in {index[f], disk[f]} \/ (ds[f] # None /\ Indexed(f) = ds[f])
  BY DEF TextOf
<1>6. ASSUME NEW f \in File \ fresh
      PROVE  Cached(f) \in {None, cache[f]} \/ (ds[f] = None /\ Cached(f) = disk[f])
  <2>1. Kept(f) \in {None, cache[f]}
    OBVIOUS
  <2> QED
    BY <2>1
<1> HIDE DEF Indexed, Cached
<1>7. index' \in [File -> Contents] /\ cache' \in [File -> Contents]
  BY <1>2, <1>3
<1>8. \A f \in File : index'[f] = Indexed(f) /\ cache'[f] = Cached(f)
  BY <1>2
<1> QED
  BY <1>2, <1>4, <1>5, <1>6, <1>7, <1>8 DEF Looked

LEMMA AnalyseFacts ==
    ASSUME TypeOK, docs' \in [File -> Contents],
           NEW ds \in [File -> Contents], NEW fresh \in SUBSET File,
           Analyse(ds, fresh)
    PROVE  /\ Looked(ds, fresh)
           /\ shown' = [f \in File |->
                    IF f \in fresh THEN [text |-> docs'[f], cfg |-> cfg']
                    ELSE shown[f]]
BY LookUpFacts DEF Analyse

-----------------------------------------------------------------------------
(* Types. *)

Fields == /\ disk \in [File -> Contents] /\ buffer \in [File -> Contents]
          /\ docs \in [File -> Contents] /\ index \in [File -> Contents]
          /\ cache \in [File -> Contents] /\ known \subseteq Text
          /\ dirty \subseteq File /\ left \subseteq File
          /\ wish \in Settings \cup {NoSetting} /\ cfg \in Config
          /\ shown \in [File -> [text : Contents, cfg : Config \cup {None}]]

\* A configuration stays one, whatever settings are sent.
LEMMA AppliedTyped ==
    ASSUME NEW c \in Config, NEW s \in Setting
    PROVE  Applied(c, s) \in Config
<1> DEFINE lang == IF s.language = None THEN c.lang ELSE s.language
           file == IF s.localeFile = None THEN c.locale ELSE s.localeFile
<1>1. lang \in Lang /\ file \in Locale \cup {NoLocale}
  BY DEF Config, Setting
<1>2. Applied(c, s) = [lang |-> lang,
                       locale |-> IF file = NoLocale /\ lang = "zh" THEN ZhLocale ELSE file]
  BY DEF Applied
<1> QED
  BY <1>1, <1>2, ServerConstants DEF Config

\* Nothing of the configuration before is left by complete settings.
LEMMA AppliedComplete ==
    ASSUME NEW c, NEW d, NEW s, Complete(s)
    PROVE  Applied(c, s) = Applied(d, s)
BY DEF Applied, Complete

LEMMA InitTyped == Init => TypeOK
<1> SUFFICES ASSUME Init PROVE TypeOK
  OBVIOUS
<1>1. Fields
  <2>1. NoSetting \in Setting /\ Default \in Config
    BY DEF NoSetting, Setting, Default, Config, Lang
  <2>2. cfg \in Config
    BY <2>1, AppliedTyped, ServerConstants DEF Init
  <2> QED
    BY <2>2 DEF Init, Fields, Contents, Units, NoDiags
<1>2. queue \in Seq(Messages)
  BY DEF Init
<1> QED
  BY <1>1, <1>2 DEF TypeOK, Fields

\* The units of an index are texts.
LEMMA UnitsTyped ==
    ASSUME NEW idx \in [File -> Contents]
    PROVE  Units(idx) \subseteq Text
BY DEF Units, Contents

LEMMA SendTyped ==
    ASSUME TypeOK, NEW kind, NEW file, NEW what, Send(kind, file, what),
           Message(kind, file, what) \in Messages
    PROVE  queue' \in Seq(Messages)
BY DEF TypeOK, Send

LEMMA EditorTyped ==
    ASSUME TypeOK,
           \/ \E f \in File : Open(f) \/ Save(f) \/ Close(f) \/ Watch(f)
           \/ \E f \in File, t \in Text : Edit(f, t)
           \/ \E f \in File, t \in Contents : Write(f, t)
           \/ \E s \in Settings : Configure(s)
    PROVE  TypeOK'
<1> USE DEF TypeOK, Contents
<1>1. ASSUME NEW f \in File, Open(f) PROVE TypeOK'
  <2>1. Message("didOpen", f, disk[f]) \in Messages
    BY <1>1 DEF Open, Message, Messages
  <2>2. queue' \in Seq(Messages)
    BY <1>1, <2>1, SendTyped DEF Open
  <2> QED
    BY <1>1, <2>2 DEF Open, Send, serverVars
<1>2. ASSUME NEW f \in File, Save(f) PROVE TypeOK'
  <2>1. Message("didSave", f, None) \in Messages
    BY DEF Message, Messages
  <2>2. queue' \in Seq(Messages)
    BY <1>2, <2>1, SendTyped DEF Save
  <2> QED
    BY <1>2, <2>2 DEF Save, Send, serverVars
<1>3. ASSUME NEW f \in File, Close(f) PROVE TypeOK'
  <2>1. Message("didClose", f, None) \in Messages
    BY DEF Message, Messages
  <2>2. queue' \in Seq(Messages)
    BY <1>3, <2>1, SendTyped DEF Close
  <2> QED
    BY <1>3, <2>2 DEF Close, Send, serverVars
<1>4. ASSUME NEW f \in File, Watch(f) PROVE TypeOK'
  <2> DEFINE k == IF disk[f] = None THEN "deleted" ELSE "changed"
  <2>1. Message(k, f, None) \in Messages
    BY DEF Message, Messages
  <2>2. queue' \in Seq(Messages)
    BY <1>4, <2>1, SendTyped DEF Watch
  <2> QED
    BY <1>4, <2>2 DEF Watch, Send, serverVars
<1>5. ASSUME NEW f \in File, NEW t \in Text, Edit(f, t) PROVE TypeOK'
  <2>1. Message("didChange", f, t) \in Messages
    BY DEF Message, Messages
  <2>2. queue' \in Seq(Messages)
    BY <1>5, <2>1, SendTyped DEF Edit
  <2> QED
    BY <1>5, <2>2 DEF Edit, Send, serverVars
<1>6. ASSUME NEW f \in File, NEW t \in Contents, Write(f, t) PROVE TypeOK'
  BY <1>6 DEF Write, serverVars
<1>7. ASSUME NEW s \in Settings, Configure(s) PROVE TypeOK'
  <2>1. Message("didChangeConfiguration", None, s) \in Messages
    BY DEF Message, Messages
  <2>2. queue' \in Seq(Messages)
    BY <1>7, <2>1, SendTyped DEF Configure
  <2> QED
    BY <1>7, <2>2 DEF Configure, Send, serverVars
<1> QED
  BY <1>1, <1>2, <1>3, <1>4, <1>5, <1>6, <1>7

\* An analysis leaves tables of the right types.
LEMMA AnalyseTyped ==
    ASSUME TypeOK, docs' \in [File -> Contents], cfg' \in Config,
           NEW ds \in [File -> Contents], NEW fresh \in SUBSET File,
           Analyse(ds, fresh)
    PROVE  /\ index' \in [File -> Contents] /\ cache' \in [File -> Contents]
           /\ known' \subseteq Text
           /\ shown' \in [File -> [text : Contents, cfg : Config \cup {None}]]
<1>1. Looked(ds, fresh)
  BY AnalyseFacts
<1>2. index' \in [File -> Contents] /\ cache' \in [File -> Contents]
  BY <1>1 DEF Looked
<1>3. known' \subseteq Text
  BY <1>1, <1>2, UnitsTyped DEF Looked
<1>4. shown' \in [File -> [text : Contents, cfg : Config \cup {None}]]
  BY AnalyseFacts DEF TypeOK
<1> QED
  BY <1>2, <1>3, <1>4

LEMMA ServerTyped ==
    ASSUME TypeOK,
           \/ DidOpen \/ DidChange \/ DidSave \/ DidClose
           \/ DidChangeConfiguration \/ Deleted \/ Changed \/ Request
    PROVE  TypeOK'
<1>1. CASE DidOpen
  <2> DEFINE m == queue[1]
  <2>1. /\ queue' \in Seq(Messages) /\ UNCHANGED editorVars /\ Head(queue) = m
        /\ m.file \in File /\ m.what \in Text
    BY <1>1, ReceiveFacts, MessageFacts DEF DidOpen
  <2>2. /\ docs' \in [File -> Contents] /\ left' \subseteq File /\ cfg' \in Config
        /\ docs \in [File -> Contents]
    BY <1>1, <2>1 DEF DidOpen, TypeOK, Contents
  <2>3. Analyse(docs, {m.file})
    BY <1>1, <2>1 DEF DidOpen
  <2> QED
    BY <2>1, <2>2, <2>3, AnalyseTyped DEF TypeOK, editorVars
<1>2. CASE DidChange
  <2> DEFINE m == queue[1]
  <2>1. /\ queue' \in Seq(Messages) /\ UNCHANGED editorVars /\ Head(queue) = m
        /\ m.file \in File /\ m.what \in Text
    BY <1>2, ReceiveFacts, MessageFacts DEF DidChange
  <2>2. docs' \in [File -> Contents] /\ UNCHANGED <<cfg, left>>
    BY <1>2, <2>1 DEF DidChange, TypeOK, Contents
  <2>3. CASE docs[m.file] = None
    BY <1>2, <2>1, <2>2, <2>3 DEF DidChange, TypeOK, editorVars
  <2>4. CASE docs[m.file] # None
    <3>1. Analyse(docs', {m.file})
      BY <1>2, <2>1, <2>4 DEF DidChange
    <3>2. cfg' \in Config
      BY <2>2 DEF TypeOK
    <3> QED
      BY <2>1, <2>2, <3>1, <3>2, AnalyseTyped DEF TypeOK, editorVars
  <2> QED
    BY <2>3, <2>4
<1>3. CASE DidSave
  <2> DEFINE f == queue[1].file
  <2>1. /\ queue' \in Seq(Messages) /\ UNCHANGED editorVars
        /\ Head(queue).file = f /\ f \in File
    BY <1>3, ReceiveFacts, MessageFacts DEF DidSave
  <2>2. UNCHANGED <<docs, cfg, left>>
    BY <1>3 DEF DidSave
  <2>3. CASE docs[f] = None
    BY <1>3, <2>1, <2>2, <2>3 DEF DidSave, TypeOK, editorVars
  <2>4. CASE docs[f] # None
    <3>1. Analyse(docs, {f})
      BY <1>3, <2>1, <2>4 DEF DidSave
    <3>2. docs \in [File -> Contents] /\ docs' \in [File -> Contents] /\ cfg' \in Config
      BY <2>2 DEF TypeOK
    <3> QED
      BY <2>1, <2>2, <3>1, <3>2, AnalyseTyped DEF TypeOK, editorVars
  <2> QED
    BY <2>3, <2>4
<1>4. CASE DidClose
  <2>1. /\ queue' \in Seq(Messages) /\ UNCHANGED editorVars
        /\ Head(queue).file \in File
    BY <1>4, ReceiveFacts, MessageFacts DEF DidClose
  <2> QED
    BY <1>4, <2>1 DEF DidClose, TypeOK, editorVars, Contents, NoDiags
<1>5. CASE DidChangeConfiguration
  <2>1. /\ queue' \in Seq(Messages) /\ UNCHANGED editorVars
        /\ Head(queue).what \in Settings
    BY <1>5, ReceiveFacts, MessageFacts DEF DidChangeConfiguration
  <2>2. UNCHANGED <<docs, left>> /\ cfg' \in Config
    BY <1>5, <2>1, AppliedTyped, ServerConstants DEF DidChangeConfiguration, TypeOK
  <2>3. CASE cfg' = cfg
    BY <1>5, <2>1, <2>2, <2>3 DEF DidChangeConfiguration, TypeOK, editorVars
  <2>4. CASE cfg' # cfg
    <3>1. Analyse(docs, {f \in File : docs[f] # None})
      BY <1>5, <2>4 DEF DidChangeConfiguration
    <3>2. docs \in [File -> Contents] /\ docs' \in [File -> Contents]
      BY <2>2 DEF TypeOK
    <3> QED
      BY <2>1, <2>2, <3>1, <3>2, AnalyseTyped DEF TypeOK, editorVars
  <2> QED
    BY <2>3, <2>4
<1>6. CASE Deleted
  <2>1. /\ queue' \in Seq(Messages) /\ UNCHANGED editorVars
        /\ Head(queue).file \in File
    BY <1>6, ReceiveFacts, MessageFacts DEF Deleted
  <2>2. index' \in [File -> Contents] /\ known' = Units(index')
    BY <1>6, <2>1 DEF Deleted, TypeOK, Contents
  <2>3. known' \subseteq Text
    BY <2>2, UnitsTyped
  <2> QED
    BY <1>6, <2>1, <2>2, <2>3 DEF Deleted, TypeOK, editorVars, Contents
<1>7. CASE Changed
  <2> DEFINE f == Head(queue).file
  <2>1. queue' \in Seq(Messages) /\ UNCHANGED editorVars /\ f \in File
    BY <1>7, ReceiveFacts, MessageFacts DEF Changed
  <2>2. CASE disk[f] = None
    BY <1>7, <2>1, <2>2 DEF Changed, TypeOK, editorVars
  <2>3. CASE disk[f] # None
    <3>1. index' \in [File -> Contents] /\ known' = Units(index')
      BY <1>7, <2>1, <2>3 DEF Changed, TypeOK
    <3>2. known' \subseteq Text
      BY <3>1, UnitsTyped
    <3> QED
      BY <1>7, <2>1, <2>3, <3>1, <3>2 DEF Changed, TypeOK, editorVars, Contents
  <2> QED
    BY <2>2, <2>3
<1>8. CASE Request
  <2>1. UNCHANGED <<editorVars, queue, docs, cfg, shown, left>>
    BY <1>8 DEF Request
  <2>2. docs \in [File -> Contents] /\ docs' \in [File -> Contents]
    BY <2>1 DEF TypeOK
  <2>3. Looked(docs, {})
    BY <1>8, <2>2, LookUpFacts DEF Request
  <2>4. known' \subseteq Text
    BY <2>3, UnitsTyped DEF Looked
  <2> QED
    BY <2>1, <2>3, <2>4 DEF TypeOK, editorVars, Looked
<1> QED
  BY <1>1, <1>2, <1>3, <1>4, <1>5, <1>6, <1>7, <1>8

LEMMA Typed == TypeOK /\ [Next]_vars => TypeOK'
<1> SUFFICES ASSUME TypeOK, [Next]_vars PROVE TypeOK'
  OBVIOUS
<1>1. CASE Next
  BY <1>1, EditorTyped, ServerTyped DEF Next
<1>2. CASE UNCHANGED vars
  BY <1>2 DEF TypeOK, vars, editorVars, serverVars
<1> QED
  BY <1>1, <1>2

-----------------------------------------------------------------------------
(* Events, the cache and the index. *)

\* What the steps outside the server have in common.
EditorStep ==
    /\ UNCHANGED serverVars
    /\ \/ queue' = queue
       \/ \E m \in Messages :
            /\ Longer(m)
            /\ \A f \in File : IsEvent(m, f) => (m.kind = "deleted" <=> disk'[f] = None)
    /\ \A f \in File \ dirty' :
        /\ disk'[f] = disk[f]
        /\ f \in dirty => /\ Len(queue') = Len(queue) + 1
                         /\ IsEvent(queue'[Len(queue) + 1], f)

LEMMA SendEditorStep ==
    ASSUME TypeOK, NEW kind, NEW file, NEW what, Send(kind, file, what),
           Message(kind, file, what) \in Messages,
           kind \notin {"deleted", "changed"},
           dirty \subseteq dirty',
           \A f \in File \ dirty' : disk'[f] = disk[f]
    PROVE  EditorStep
<1>1. Longer(Message(kind, file, what)) /\ UNCHANGED serverVars
  BY SendFacts
<1>2. \A f \in File : ~IsEvent(Message(kind, file, what), f)
  BY DEF IsEvent, Message
<1> QED
  BY <1>1, <1>2 DEF EditorStep

LEMMA EditorSteps ==
    ASSUME TypeOK,
           \/ \E f \in File : Open(f) \/ Save(f) \/ Close(f) \/ Watch(f)
           \/ \E f \in File, t \in Text : Edit(f, t)
           \/ \E f \in File, t \in Contents : Write(f, t)
           \/ \E s \in Settings : Configure(s)
    PROVE  EditorStep
<1>1. ASSUME NEW f \in File, Open(f) PROVE EditorStep
  <2>1. Message("didOpen", f, disk[f]) \in Messages
    BY <1>1 DEF Open, Message, Messages, TypeOK, Contents
  <2> QED
    BY <1>1, <2>1, SendEditorStep DEF Open
<1>2. ASSUME NEW f \in File, Save(f) PROVE EditorStep
  <2>1. Message("didSave", f, None) \in Messages
    BY DEF Message, Messages
  <2>2. \A g \in File \ dirty' : disk'[g] = disk[g]
    BY <1>2 DEF Save, TypeOK
  <2> QED
    BY <1>2, <2>1, <2>2, SendEditorStep DEF Save
<1>3. ASSUME NEW f \in File, Close(f) PROVE EditorStep
  <2>1. Message("didClose", f, None) \in Messages
    BY DEF Message, Messages
  <2> QED
    BY <1>3, <2>1, SendEditorStep DEF Close
<1>4. ASSUME NEW f \in File, Watch(f) PROVE EditorStep
  <2> DEFINE k == IF disk[f] = None THEN "deleted" ELSE "changed"
             m == Message(k, f, None)
  <2>1. m \in Messages
    BY DEF Message, Messages
  <2>2. Longer(m) /\ UNCHANGED serverVars /\ disk' = disk /\ dirty' = dirty \ {f}
    BY <1>4, SendFacts DEF Watch
  <2>3. \A g \in File : IsEvent(m, g) => (m.kind = "deleted" <=> disk'[g] = None)
    BY <2>2 DEF IsEvent, Message
  <2>4. m.file = f /\ IsEvent(m, f)
    BY DEF IsEvent, Message
  <2>5. \A g \in File \ dirty' : g \in dirty =>
            Len(queue') = Len(queue) + 1 /\ IsEvent(queue'[Len(queue) + 1], g)
    <3> HIDE DEF m
    <3> QED
      BY <2>2, <2>4 DEF Longer
  <2> HIDE DEF m
  <2> QED
    BY <2>1, <2>2, <2>3, <2>5 DEF EditorStep
<1>5. ASSUME NEW f \in File, NEW t \in Text, Edit(f, t) PROVE EditorStep
  <2>1. Message("didChange", f, t) \in Messages
    BY DEF Message, Messages
  <2> QED
    BY <1>5, <2>1, SendEditorStep DEF Edit
<1>6. ASSUME NEW f \in File, NEW t \in Contents, Write(f, t) PROVE EditorStep
  BY <1>6 DEF Write, EditorStep, TypeOK
<1>7. ASSUME NEW s \in Settings, Configure(s) PROVE EditorStep
  <2>1. Message("didChangeConfiguration", None, s) \in Messages
    BY DEF Message, Messages
  <2> QED
    BY <1>7, <2>1, SendEditorStep DEF Configure
<1> QED
  BY <1>1, <1>2, <1>3, <1>4, <1>5, <1>6, <1>7

\* Outside the server no file loses its event.
LEMMA DueKept ==
    ASSUME TypeOK, EditorStep, NEW f \in File, Due(f)
    PROVE  Due(f)'
<1>1. Len(queue) \in Nat
  BY DEF TypeOK
<1>2. CASE f \in dirty
  BY <1>1, <1>2 DEF EditorStep, Due, Range1
<1>3. ASSUME NEW i \in Range1, IsEvent(queue[i], f) PROVE Due(f)'
  <2>1. i \in Range1' /\ queue'[i] = queue[i]
    BY <1>1 DEF EditorStep, Longer, Range1
  <2>2. IsEvent(queue'[i], f)
    BY <1>3, <2>1
  <2> QED
    BY <2>1, <2>2 DEF Due
<1> QED
  BY <1>2, <1>3 DEF Due

LEMMA EditorEvents ==
    ASSUME TypeOK, EditorStep, EventInv
    PROVE  EventInv'
<1> SUFFICES ASSUME NEW f \in File, f \notin dirty',
                    NEW i \in Range1', queue'[i].file = f,
                    \/ queue'[i].kind = "changed" /\ disk'[f] = None
                    \/ queue'[i].kind = "deleted" /\ disk'[f] # None
             PROVE  \E j \in (i + 1)..Len(queue') : IsEvent(queue'[j], f)
  BY DEF EventInv
<1>1. Len(queue) \in Nat /\ disk'[f] = disk[f]
  BY DEF TypeOK, EditorStep
<1>2. CASE queue' = queue
  <2>1. f \notin dirty
    BY <1>1, <1>2 DEF EditorStep
  <2> QED
    BY <1>1, <1>2, <2>1 DEF EventInv, Range1
<1>3. ASSUME NEW m \in Messages, Longer(m),
             \A g \in File : IsEvent(m, g) => (m.kind = "deleted" <=> disk'[g] = None)
      PROVE  \E j \in (i + 1)..Len(queue') : IsEvent(queue'[j], f)
  <2>1. i # Len(queue) + 1
    BY <1>3 DEF Longer, IsEvent
  <2>2. i \in Range1 /\ queue'[i] = queue[i]
    BY <1>1, <1>3, <2>1 DEF Longer, Range1
  <2>3. CASE f \in dirty
    BY <1>1, <2>2, <2>3 DEF EditorStep, Range1
  <2>4. CASE f \notin dirty
    <3>1. PICK j \in (i + 1)..Len(queue) : IsEvent(queue[j], f)
      BY <1>1, <2>2, <2>4 DEF EventInv
    <3>2. j \in (i + 1)..Len(queue') /\ queue'[j] = queue[j]
      BY <1>1, <1>3, <2>2, <3>1 DEF Longer, Range1
    <3> QED
      BY <3>1, <3>2
  <2> QED
    BY <2>3, <2>4
<1> QED
  BY <1>2, <1>3 DEF EditorStep

LEMMA EditorTables ==
    ASSUME TypeOK, EditorStep, CacheInv, IndexInv
    PROVE  CacheInv' /\ IndexInv'
<1>1. ASSUME NEW f \in File PROVE (Due(f) => Due(f)') /\ (disk'[f] = disk[f] \/ Due(f)')
  BY DueKept DEF EditorStep, Due
<1>2. UNCHANGED <<docs, index, cache, left>>
  BY DEF EditorStep, serverVars
<1>3. CacheInv'
  <2> SUFFICES ASSUME NEW f \in File, cache'[f] # None
               PROVE  docs'[f] = None /\ (cache'[f] = disk'[f] \/ Due(f)')
    BY DEF CacheInv
  <2> QED
    BY <1>1, <1>2 DEF CacheInv
<1>4. IndexInv'
  <2> SUFFICES ASSUME NEW f \in File \ left', docs'[f] \in {None, disk'[f]}
               PROVE  index'[f] = disk'[f] \/ Due(f)'
    BY DEF IndexInv
  <2> QED
    BY <1>1, <1>2 DEF IndexInv
<1> QED
  BY <1>3, <1>4

\* A message that is not an event for f takes no event of f with it.
LEMMA DueShorter ==
    ASSUME Shorter, UNCHANGED dirty, NEW f \in File, ~IsEvent(queue[1], f), Due(f)
    PROVE  Due(f)'
<1>1. ASSUME NEW i \in Range1, IsEvent(queue[i], f) PROVE Due(f)'
  <2>1. i # 1 /\ i - 1 \in Range1'
    BY <1>1 DEF Shorter, Range1
  <2>2. queue'[i - 1] = queue[i]
    BY <2>1 DEF Shorter, Range1
  <2>3. IsEvent(queue'[i - 1], f)
    BY <1>1, <2>2
  <2> QED
    BY <2>1, <2>3 DEF Due
<1> QED
  BY <1>1 DEF Due

LEMMA EventShorter ==
    ASSUME Shorter, UNCHANGED <<dirty, disk>>, EventInv
    PROVE  EventInv'
<1> SUFFICES ASSUME NEW f \in File, f \notin dirty,
                    NEW i \in Range1', queue'[i].file = f,
                    \/ queue'[i].kind = "changed" /\ disk[f] = None
                    \/ queue'[i].kind = "deleted" /\ disk[f] # None
             PROVE  \E j \in (i + 1)..Len(queue') : IsEvent(queue'[j], f)
  BY DEF EventInv
<1>1. i + 1 \in Range1 /\ queue'[i] = queue[i + 1]
  BY DEF Shorter, Range1
<1>2. PICK j \in ((i + 1) + 1)..Len(queue) : IsEvent(queue[j], f)
  BY <1>1 DEF EventInv
<1>3. j - 1 \in (i + 1)..Len(queue') /\ queue'[j - 1] = queue[j]
  BY <1>1, <1>2 DEF Shorter, Range1
<1> QED
  BY <1>2, <1>3

\* An event that no longer tells the truth is not the last one.
LEMMA EventHead ==
    ASSUME Shorter, UNCHANGED <<dirty, disk>>, EventInv, NEW f \in File,
           queue[1].file = f,
           \/ queue[1].kind = "changed" /\ disk[f] = None
           \/ queue[1].kind = "deleted" /\ disk[f] # None
    PROVE  Due(f)'
<1>1. CASE f \in dirty
  BY <1>1 DEF Due
<1>2. CASE f \notin dirty
  <2>1. 1 \in Range1
    BY DEF Shorter, Range1
  <2>2. PICK j \in 2..Len(queue) : IsEvent(queue[j], f)
    BY <1>2, <2>1 DEF EventInv
  <2>3. j - 1 \in Range1' /\ queue'[j - 1] = queue[j]
    BY <2>2 DEF Shorter, Range1
  <2> QED
    BY <2>2, <2>3 DEF Due
<1> QED
  BY <1>1, <1>2

\* An analysis of open documents.
LEMMA AnalyseKeeps ==
    ASSUME TypeOK, CacheInv, IndexInv, UNCHANGED disk,
           \A f \in File : Due(f) => Due(f)',
           NEW ds, NEW fresh \in SUBSET File, Looked(ds, fresh),
           \A f \in fresh : docs'[f] # None,
           \A f \in File \ fresh :
                docs'[f] = docs[f] /\ ds[f] = docs[f] /\ (f \in left => f \in left')
    PROVE  CacheInv' /\ IndexInv'
<1>1. ASSUME NEW f \in File, cache'[f] # None
      PROVE  docs'[f] = None /\ (cache'[f] = disk[f] \/ Due(f)')
  <2>1. f \notin fresh
    BY <1>1 DEF Looked
  <2>2. cache'[f] = cache[f] \/ (docs[f] = None /\ cache'[f] = disk[f])
    BY <1>1, <2>1 DEF Looked
  <2> QED
    BY <1>1, <2>1, <2>2 DEF CacheInv
<1>2. ASSUME NEW f \in File \ left', docs'[f] \in {None, disk[f]}
      PROVE  index'[f] = disk[f] \/ Due(f)'
  <2>1. CASE f \in fresh
    BY <1>2, <2>1 DEF Looked
  <2>2. CASE f \notin fresh
    <3>1. f \notin left /\ docs'[f] = docs[f] /\ ds[f] = docs[f]
      BY <1>2, <2>2
    <3>2. index'[f] \in {index[f], disk[f]} \/ (docs[f] # None /\ index'[f] = docs[f])
      BY <2>2, <3>1 DEF Looked
    <3> QED
      BY <1>2, <3>1, <3>2 DEF IndexInv
  <2> QED
    BY <2>1, <2>2
<1> QED
  BY <1>1, <1>2 DEF CacheInv, IndexInv

LEMMA ServerTables ==
    ASSUME TypeOK, EventInv, CacheInv, IndexInv,
           \/ DidOpen \/ DidChange \/ DidSave \/ DidClose
           \/ DidChangeConfiguration \/ Deleted \/ Changed \/ Request
    PROVE  EventInv' /\ CacheInv' /\ IndexInv'
<1> DEFINE m == queue[1]
<1>t. TypeOK'
  BY ServerTyped
<1>1. ASSUME NEW kind, Receive(kind)
      PROVE  /\ EventInv' /\ UNCHANGED <<disk, dirty>>
             /\ Head(queue) = m /\ m \in Messages /\ m.kind = kind /\ Shorter
             /\ \A f \in File : Due(f) /\ ~IsEvent(m, f) => Due(f)'
  <2>1. /\ Shorter /\ UNCHANGED <<disk, dirty>>
        /\ Head(queue) = m /\ m \in Messages /\ m.kind = kind
    BY <1>1, ReceiveFacts DEF editorVars
  <2>2. EventInv'
    BY <2>1, EventShorter
  <2>3. ASSUME NEW f \in File, Due(f), ~IsEvent(m, f) PROVE Due(f)'
    BY <2>1, <2>3, DueShorter
  <2> QED
    BY <2>1, <2>2, <2>3
<1>2. CASE DidOpen
  <2>1. /\ EventInv' /\ UNCHANGED <<disk, dirty>> /\ Head(queue) = m
        /\ m \in Messages /\ m.kind = "didOpen"
        /\ \A f \in File : Due(f) /\ ~IsEvent(m, f) => Due(f)'
    BY <1>1, <1>2 DEF DidOpen
  <2>2. m.file \in File /\ m.what \in Text
    BY <2>1, MessageFacts
  <2>3. /\ docs' = [docs EXCEPT ![m.file] = m.what] /\ left' = left \ {m.file}
        /\ Analyse(docs, {m.file})
    BY <1>2, <2>1 DEF DidOpen
  <2>4. /\ docs \in [File -> Contents] /\ docs' \in [File -> Contents]
        /\ None \notin Text
    BY <1>t, ServerConstants DEF TypeOK
  <2>5. Looked(docs, {m.file})
    BY <2>2, <2>3, <2>4, AnalyseFacts
  <2>6. \A f \in File : Due(f) => Due(f)'
    BY <2>1 DEF IsEvent
  <2>7. /\ \A f \in {m.file} : docs'[f] # None
        /\ \A f \in File \ {m.file} : docs'[f] = docs[f] /\ (f \in left => f \in left')
    BY <2>2, <2>3, <2>4
  <2> QED
    BY <2>1, <2>2, <2>5, <2>6, <2>7, AnalyseKeeps
<1>3. CASE DidChange
  <2>1. /\ EventInv' /\ UNCHANGED <<disk, dirty>> /\ Head(queue) = m
        /\ m \in Messages /\ m.kind = "didChange"
        /\ \A f \in File : Due(f) /\ ~IsEvent(m, f) => Due(f)'
    BY <1>1, <1>3 DEF DidChange
  <2>2. m.file \in File /\ m.what \in Text /\ left' = left
    BY <1>3, <2>1, MessageFacts DEF DidChange
  <2>3. \A f \in File : Due(f) => Due(f)'
    BY <2>1 DEF IsEvent
  <2>4. CASE docs[m.file] = None
    <3>1. UNCHANGED <<docs, index, cache, disk, left>>
      BY <1>3, <2>1, <2>2, <2>4 DEF DidChange
    <3> QED
      BY <2>1, <2>3, <3>1 DEF CacheInv, IndexInv
  <2>5. CASE docs[m.file] # None
    <3>1. docs' = [docs EXCEPT ![m.file] = m.what] /\ Analyse(docs', {m.file})
      BY <1>3, <2>1, <2>5 DEF DidChange
    <3>2. docs \in [File -> Contents] /\ docs' \in [File -> Contents] /\ None \notin Text
      BY <1>t, ServerConstants DEF TypeOK
    <3>3. Looked(docs', {m.file})
      BY <2>2, <3>1, <3>2, AnalyseFacts
    <3>4. /\ \A f \in {m.file} : docs'[f] # None
          /\ \A f \in File \ {m.file} : docs'[f] = docs[f]
      BY <2>2, <3>1, <3>2
    <3> QED
      BY <2>1, <2>2, <2>3, <3>3, <3>4, AnalyseKeeps
  <2> QED
    BY <2>4, <2>5
<1>4. CASE DidSave
  <2>1. /\ EventInv' /\ UNCHANGED <<disk, dirty>> /\ Head(queue) = m
        /\ m \in Messages /\ m.kind = "didSave"
        /\ \A f \in File : Due(f) /\ ~IsEvent(m, f) => Due(f)'
    BY <1>1, <1>4 DEF DidSave
  <2>2. m.file \in File /\ UNCHANGED <<docs, left>>
    BY <1>4, <2>1, MessageFacts DEF DidSave
  <2>3. \A f \in File : Due(f) => Due(f)'
    BY <2>1 DEF IsEvent
  <2>4. CASE docs[m.file] = None
    <3>1. UNCHANGED <<index, cache>>
      BY <1>4, <2>1, <2>4 DEF DidSave
    <3> QED
      BY <2>1, <2>2, <2>3, <3>1 DEF CacheInv, IndexInv
  <2>5. CASE docs[m.file] # None
    <3>1. Analyse(docs, {m.file})
      BY <1>4, <2>1, <2>5 DEF DidSave
    <3>2. docs \in [File -> Contents] /\ docs' \in [File -> Contents]
      BY <1>t DEF TypeOK
    <3>3. Looked(docs, {m.file})
      BY <2>2, <3>1, <3>2, AnalyseFacts
    <3> QED
      BY <2>1, <2>2, <2>3, <2>5, <3>3, AnalyseKeeps
  <2> QED
    BY <2>4, <2>5
<1>5. CASE DidClose
  <2>1. /\ EventInv' /\ UNCHANGED <<disk, dirty>> /\ Head(queue) = m
        /\ m \in Messages /\ m.kind = "didClose"
        /\ \A f \in File : Due(f) /\ ~IsEvent(m, f) => Due(f)'
    BY <1>1, <1>5 DEF DidClose
  <2>2. m.file \in File /\ UNCHANGED <<index, cache>>
    BY <1>5, <2>1, MessageFacts DEF DidClose
  <2>3. \A f \in File : Due(f) => Due(f)'
    BY <2>1 DEF IsEvent
  <2>4. /\ docs' = [docs EXCEPT ![m.file] = None] /\ docs \in [File -> Contents]
        /\ docs[m.file] # disk[m.file] => left' = left \cup {m.file}
        /\ docs[m.file] = disk[m.file] => left' = left
    <3>1. docs \in [File -> Contents]
      BY DEF TypeOK
    <3> QED
      BY <1>5, <2>1, <3>1 DEF DidClose
  <2>5. CacheInv'
    BY <2>1, <2>2, <2>3, <2>4 DEF CacheInv
  <2>6. IndexInv'
    BY <2>1, <2>2, <2>3, <2>4 DEF IndexInv
  <2> QED
    BY <2>1, <2>5, <2>6
<1>6. CASE DidChangeConfiguration
  <2>1. /\ EventInv' /\ UNCHANGED <<disk, dirty>> /\ Head(queue) = m
        /\ m \in Messages /\ m.kind = "didChangeConfiguration"
        /\ \A f \in File : Due(f) /\ ~IsEvent(m, f) => Due(f)'
    BY <1>1, <1>6 DEF DidChangeConfiguration
  <2>2. UNCHANGED <<docs, left>>
    BY <1>6 DEF DidChangeConfiguration
  <2>3. \A f \in File : Due(f) => Due(f)'
    BY <2>1 DEF IsEvent
  <2>4. CASE cfg' = cfg
    <3>1. UNCHANGED <<index, cache>>
      BY <1>6, <2>4 DEF DidChangeConfiguration
    <3> QED
      BY <2>1, <2>2, <2>3, <3>1 DEF CacheInv, IndexInv
  <2>5. CASE cfg' # cfg
    <3> DEFINE open == {f \in File : docs[f] # None}
    <3>1. Analyse(docs, open)
      BY <1>6, <2>5 DEF DidChangeConfiguration
    <3>2. docs \in [File -> Contents] /\ docs' \in [File -> Contents]
      BY <1>t DEF TypeOK
    <3>3. Looked(docs, open)
      BY <3>1, <3>2, AnalyseFacts
    <3>4. \A f \in open : docs'[f] # None
      BY <2>2
    <3> QED
      BY <2>1, <2>2, <2>3, <3>3, <3>4, AnalyseKeeps
  <2> QED
    BY <2>4, <2>5
<1>7. CASE Deleted
  <2>1. /\ EventInv' /\ UNCHANGED <<disk, dirty>> /\ Head(queue) = m
        /\ m \in Messages /\ m.kind = "deleted" /\ Shorter
        /\ \A f \in File : Due(f) /\ ~IsEvent(m, f) => Due(f)'
    BY <1>1, <1>7 DEF Deleted
  <2>2. PICK f \in File : f = m.file
    BY <2>1, MessageFacts
  <2>3. /\ docs' = docs /\ left' = left \ {f}
        /\ index' = [index EXCEPT ![f] = None]
        /\ cache' = [cache EXCEPT ![f] = None]
    BY <1>7, <2>1, <2>2 DEF Deleted
  <2>4. \A g \in File \ {f} : Due(g) => Due(g)'
    BY <2>1, <2>2 DEF IsEvent
  <2>5. disk[f] # None => Due(f)'
    BY <2>1, <2>2, EventHead
  <2>6. CacheInv'
    BY <2>1, <2>3, <2>4 DEF CacheInv, TypeOK
  <2>7. IndexInv'
    BY <2>1, <2>3, <2>4, <2>5 DEF IndexInv, TypeOK
  <2> QED
    BY <2>1, <2>6, <2>7
<1>8. CASE Changed
  <2>1. /\ EventInv' /\ UNCHANGED <<disk, dirty>> /\ Head(queue) = m
        /\ m \in Messages /\ m.kind = "changed" /\ Shorter
        /\ \A f \in File : Due(f) /\ ~IsEvent(m, f) => Due(f)'
    BY <1>1, <1>8 DEF Changed
  <2>2. PICK f \in File : f = m.file
    BY <2>1, MessageFacts
  <2>3. docs' = docs /\ \A g \in File \ {f} : Due(g) => Due(g)'
    BY <1>8, <2>1, <2>2 DEF IsEvent, Changed
  <2>4. CASE disk[f] = None
    <3>1. UNCHANGED <<index, cache, left>>
      BY <1>8, <2>1, <2>2, <2>4 DEF Changed
    <3>2. Due(f)'
      BY <2>1, <2>2, <2>4, EventHead
    <3> QED
      BY <2>1, <2>3, <3>1, <3>2 DEF CacheInv, IndexInv
  <2>5. CASE disk[f] # None
    <3>1. /\ left' = left \ {f}
          /\ index' = [index EXCEPT ![f] = disk[f]]
          /\ cache' = [cache EXCEPT ![f] = None]
      BY <1>8, <2>1, <2>2, <2>5 DEF Changed
    <3>2. CacheInv'
      BY <2>1, <2>3, <3>1 DEF CacheInv, TypeOK
    <3>3. IndexInv'
      BY <2>1, <2>3, <3>1 DEF IndexInv, TypeOK
    <3> QED
      BY <2>1, <3>2, <3>3
  <2> QED
    BY <2>4, <2>5
<1>9. CASE Request
  <2>1. UNCHANGED <<editorVars, queue, docs, left>>
    BY <1>9 DEF Request
  <2>2. EventInv' /\ \A f \in File : Due(f) => Due(f)'
    BY <2>1 DEF EventInv, Due, Range1, editorVars
  <2>3. docs \in [File -> Contents] /\ docs' \in [File -> Contents]
    BY <1>t DEF TypeOK
  <2>4. Looked(docs, {})
    BY <1>9, <2>3, LookUpFacts DEF Request
  <2> QED
    BY <2>1, <2>2, <2>4, AnalyseKeeps DEF editorVars
<1> QED
  BY <1>2, <1>3, <1>4, <1>5, <1>6, <1>7, <1>8, <1>9
-----------------------------------------------------------------------------
(* Documents, and what is shown of them. *)

\* A message behind the others is what the editor has in its buffer.
LEMMA BufferSend ==
    ASSUME TypeOK, BufferInv, NEW m, Longer(m), UNCHANGED docs,
           \A f \in File : ~IsDoc(m, f) => buffer'[f] = buffer[f],
           \A f \in File : IsDoc(m, f) => m.what = buffer'[f]
    PROVE  BufferInv'
<1>0. Len(queue) \in Nat
  BY DEF TypeOK
<1>1. ASSUME NEW f \in File, \A i \in Range1' : ~IsDoc(queue'[i], f)
      PROVE  docs'[f] = buffer'[f]
  <2>1. \A i \in Range1 : ~IsDoc(queue[i], f)
    BY <1>0, <1>1 DEF Longer, Range1
  <2>2. ~IsDoc(m, f)
    BY <1>0, <1>1 DEF Longer, Range1
  <2> QED
    BY <2>1, <2>2 DEF BufferInv
<1>2. ASSUME NEW f \in File, NEW i \in Range1', IsDoc(queue'[i], f),
             \A j \in (i + 1)..Len(queue') : ~IsDoc(queue'[j], f)
      PROVE  queue'[i].what = buffer'[f]
  <2>1. CASE i = Len(queue) + 1
    BY <1>2, <2>1 DEF Longer
  <2>2. CASE i # Len(queue) + 1
    <3>1. i \in Range1 /\ queue'[i] = queue[i]
      BY <1>0, <2>2 DEF Longer, Range1
    <3>2. ~IsDoc(m, f)
      <4>1. Len(queue) + 1 \in (i + 1)..Len(queue')
        BY <1>0, <3>1 DEF Longer, Range1
      <4> QED
        BY <1>2, <4>1 DEF Longer
    <3>3. \A j \in (i + 1)..Len(queue) : ~IsDoc(queue[j], f)
      <4> TAKE j \in (i + 1)..Len(queue)
      <4>1. j \in Range1 /\ j \in (i + 1)..Len(queue')
        BY <1>0, <3>1 DEF Longer, Range1
      <4> QED
        BY <1>2, <4>1 DEF Longer
    <3> QED
      BY <1>2, <3>1, <3>2, <3>3 DEF BufferInv
  <2> QED
    BY <2>1, <2>2
<1> QED
  BY <1>1, <1>2 DEF BufferInv

LEMMA BufferReceive ==
    ASSUME BufferInv, Shorter, UNCHANGED buffer,
           \A f \in File : ~IsDoc(queue[1], f) => docs'[f] = docs[f],
           \A f \in File : IsDoc(queue[1], f) => docs'[f] = queue[1].what
    PROVE  BufferInv'
<1>0. 1 \in Range1
  BY DEF Shorter, Range1
<1>1. ASSUME NEW f \in File, \A i \in Range1' : ~IsDoc(queue'[i], f)
      PROVE  docs'[f] = buffer'[f]
  <2>1. ASSUME NEW j \in Range1, j # 1 PROVE ~IsDoc(queue[j], f)
    <3>1. j - 1 \in Range1'
      BY <2>1 DEF Shorter, Range1
    <3>2. queue'[j - 1] = queue[j]
      BY <2>1, <3>1 DEF Shorter, Range1
    <3> QED
      BY <1>1, <3>1, <3>2
  <2>2. CASE IsDoc(queue[1], f)
    <3>1. \A j \in (1 + 1)..Len(queue) : ~IsDoc(queue[j], f)
      BY <2>1 DEF Range1, Shorter
    <3> QED
      BY <1>0, <2>2, <3>1 DEF BufferInv
  <2>3. CASE ~IsDoc(queue[1], f)
    BY <2>1, <2>3 DEF BufferInv
  <2> QED
    BY <2>2, <2>3
<1>2. ASSUME NEW f \in File, NEW i \in Range1', IsDoc(queue'[i], f),
             \A j \in (i + 1)..Len(queue') : ~IsDoc(queue'[j], f)
      PROVE  queue'[i].what = buffer'[f]
  <2>1. i + 1 \in Range1 /\ queue'[i] = queue[i + 1]
    BY DEF Shorter, Range1
  <2>2. \A j \in ((i + 1) + 1)..Len(queue) : ~IsDoc(queue[j], f)
    <3> TAKE j \in ((i + 1) + 1)..Len(queue)
    <3>1. j - 1 \in (i + 1)..Len(queue') /\ queue'[j - 1] = queue[j]
      BY <2>1 DEF Shorter, Range1
    <3> QED
      BY <1>2, <3>1
  <2> QED
    BY <1>2, <2>1, <2>2 DEF BufferInv
<1> QED
  BY <1>1, <1>2 DEF BufferInv

\* A message more leaves a document open that it does not close.
LEMMA OpenAtSend ==
    ASSUME TypeOK, NEW m, Longer(m), UNCHANGED docs, NEW f \in File,
           NEW i \in 1..(Len(queue) + 1), OpenAt(f, i)
    PROVE  /\ OpenAt(f, i)'
           /\ i = Len(queue) + 1 /\ ~IsClose(m, f) => OpenAt(f, i + 1)'
<1>0. Len(queue) \in Nat
  BY DEF TypeOK
<1>1. \A k \in 1..(i - 1) : queue'[k] = queue[k]
  BY <1>0 DEF Longer, Range1
<1>2. i = Len(queue) + 1 => queue'[i] = m
  BY DEF Longer
<1>3. CASE docs[f] # None /\ \A k \in 1..(i - 1) : ~IsClose(queue[k], f)
  <2>1. docs'[f] # None /\ \A k \in 1..(i - 1) : ~IsClose(queue'[k], f)
    BY <1>1, <1>3
  <2>2. ASSUME i = Len(queue) + 1, ~IsClose(m, f)
        PROVE  \A k \in 1..((i + 1) - 1) : ~IsClose(queue'[k], f)
    <3> TAKE k \in 1..((i + 1) - 1)
    <3>1. k = i \/ k \in 1..(i - 1)
      BY <1>0
    <3> QED
      BY <1>2, <2>1, <2>2, <3>1
  <2> QED
    BY <2>1, <2>2 DEF OpenAt
<1>4. ASSUME NEW j \in 1..(i - 1), IsOpen(queue[j], f),
             \A k \in (j + 1)..(i - 1) : ~IsClose(queue[k], f)
      PROVE  /\ OpenAt(f, i)'
             /\ i = Len(queue) + 1 /\ ~IsClose(m, f) => OpenAt(f, i + 1)'
  <2>1. /\ IsOpen(queue'[j], f) /\ j \in 1..((i + 1) - 1)
        /\ \A k \in (j + 1)..(i - 1) : ~IsClose(queue'[k], f)
    BY <1>0, <1>1, <1>4
  <2>2. ASSUME i = Len(queue) + 1, ~IsClose(m, f)
        PROVE  \A k \in (j + 1)..((i + 1) - 1) : ~IsClose(queue'[k], f)
    <3> TAKE k \in (j + 1)..((i + 1) - 1)
    <3>1. k = i \/ k \in (j + 1)..(i - 1)
      BY <1>0
    <3> QED
      BY <1>2, <2>1, <2>2, <3>1
  <2> QED
    BY <2>1, <2>2 DEF OpenAt
<1> QED
  BY <1>3, <1>4 DEF OpenAt

\* The editor changes only what it has open.
LEMMA ChangeSend ==
    ASSUME TypeOK, ChangeInv, NEW m, Longer(m), UNCHANGED docs,
           \A f \in File : buffer'[f] # None =>
                ~IsClose(m, f) /\ (buffer[f] # None \/ IsOpen(m, f)),
           \A f \in File : m.file = f /\ m.kind = "didChange" => buffer[f] # None
    PROVE  ChangeInv'
<1>0. PICK n \in Nat : n = Len(queue) + 1
  BY DEF TypeOK
<1>1. \A f \in File : buffer[f] # None => OpenAt(f, n)
  BY <1>0 DEF ChangeInv
<1>2. ASSUME NEW f \in File, buffer'[f] # None PROVE OpenAt(f, n + 1)'
  <2>1. CASE buffer[f] # None
    BY <1>0, <1>1, <1>2, <2>1, OpenAtSend DEF TypeOK
  <2>2. CASE IsOpen(m, f)
    <3>1. n \in 1..((n + 1) - 1) /\ IsOpen(queue'[n], f)
      BY <1>0, <2>2 DEF Longer, TypeOK
    <3>2. \A k \in (n + 1)..((n + 1) - 1) : ~IsClose(queue'[k], f)
      BY <1>0
    <3> QED
      BY <3>1, <3>2 DEF OpenAt
  <2> QED
    BY <1>2, <2>1, <2>2
<1>3. ASSUME NEW f \in File, NEW i \in Range1',
             queue'[i].file = f, queue'[i].kind = "didChange"
      PROVE  OpenAt(f, i)'
  <2>0. i \in 1..n
    BY <1>0 DEF Longer, Range1, TypeOK
  <2>1. CASE i = n
    <3>1. OpenAt(f, n)
      BY <1>0, <1>1, <1>3, <2>1 DEF Longer
    <3> QED
      BY <1>0, <2>0, <2>1, <3>1, OpenAtSend
  <2>2. CASE i # n
    <3>1. i \in Range1 /\ queue'[i] = queue[i]
      BY <1>0, <2>0, <2>2 DEF Longer, Range1, TypeOK
    <3>2. OpenAt(f, i)
      BY <1>3, <3>1 DEF ChangeInv
    <3> QED
      BY <1>0, <2>0, <3>2, OpenAtSend
  <2> QED
    BY <2>1, <2>2
<1>4. Len(queue)' + 1 = n + 1
  BY <1>0 DEF Longer
<1>5. ASSUME NEW f \in File, buffer'[f] # None PROVE OpenAt(f, Len(queue) + 1)'
  BY <1>2, <1>4, <1>5 DEF OpenAt
<1> QED
  BY <1>3, <1>5 DEF ChangeInv

LEMMA OpenAtReceive ==
    ASSUME Shorter, NEW f \in File, NEW i \in 1..Len(queue), OpenAt(f, i + 1),
           docs[f] # None /\ ~IsClose(queue[1], f) => docs'[f] # None,
           IsOpen(queue[1], f) => docs'[f] # None
    PROVE  OpenAt(f, i)'
<1>0. \A k \in 1..(i - 1) : queue'[k] = queue[k + 1] /\ k + 1 \in 1..((i + 1) - 1)
  BY DEF Shorter, Range1
<1>1. CASE docs[f] # None /\ \A k \in 1..((i + 1) - 1) : ~IsClose(queue[k], f)
  <2>1. 1 \in 1..((i + 1) - 1)
    OBVIOUS
  <2>2. docs'[f] # None
    BY <1>1, <2>1
  <2>3. \A k \in 1..(i - 1) : ~IsClose(queue'[k], f)
    BY <1>0, <1>1
  <2> QED
    BY <2>2, <2>3 DEF OpenAt
<1>2. ASSUME NEW j \in 1..((i + 1) - 1), IsOpen(queue[j], f),
             \A k \in (j + 1)..((i + 1) - 1) : ~IsClose(queue[k], f)
      PROVE  OpenAt(f, i)'
  <2>1. CASE j = 1
    <3>1. docs'[f] # None
      BY <1>2, <2>1
    <3>2. \A k \in 1..(i - 1) : k + 1 \in (j + 1)..((i + 1) - 1)
      BY <2>1
    <3>3. \A k \in 1..(i - 1) : ~IsClose(queue'[k], f)
      BY <1>0, <1>2, <3>2
    <3> QED
      BY <3>1, <3>3 DEF OpenAt
  <2>2. CASE j # 1
    <3>1. PICK h \in 1..(i - 1) : h = j - 1
      BY <2>2
    <3>2. IsOpen(queue'[h], f)
      BY <1>0, <1>2, <3>1
    <3>3. \A k \in (h + 1)..(i - 1) : ~IsClose(queue'[k], f)
      <4> TAKE k \in (h + 1)..(i - 1)
      <4>1. k \in 1..(i - 1) /\ k + 1 \in (j + 1)..((i + 1) - 1)
        BY <3>1
      <4> QED
        BY <1>0, <1>2, <4>1
    <3> QED
      BY <3>2, <3>3 DEF OpenAt
  <2> QED
    BY <2>1, <2>2
<1> QED
  BY <1>1, <1>2 DEF OpenAt

LEMMA ChangeReceive ==
    ASSUME ChangeInv, Shorter, UNCHANGED buffer,
           \A f \in File : docs[f] # None /\ ~IsClose(queue[1], f) => docs'[f] # None,
           \A f \in File : IsOpen(queue[1], f) => docs'[f] # None
    PROVE  ChangeInv'
<1>0. PICK n \in 1..Len(queue) : n = Len(queue)
  BY DEF Shorter
<1>1. ASSUME NEW f \in File, buffer'[f] # None PROVE OpenAt(f, n)'
  <2>1. OpenAt(f, n + 1)
    BY <1>0, <1>1 DEF ChangeInv
  <2> QED
    BY <2>1, OpenAtReceive
<1>2. ASSUME NEW f \in File, NEW i \in Range1',
             queue'[i].file = f, queue'[i].kind = "didChange"
      PROVE  OpenAt(f, i)'
  <2>1. i \in 1..Len(queue) /\ i + 1 \in Range1 /\ queue'[i] = queue[i + 1]
    BY DEF Shorter, Range1
  <2>2. OpenAt(f, i + 1)
    BY <1>2, <2>1 DEF ChangeInv
  <2> QED
    BY <2>1, <2>2, OpenAtReceive
<1>3. Len(queue)' + 1 = n
  BY <1>0 DEF Shorter
<1>4. ASSUME NEW f \in File, buffer'[f] # None PROVE OpenAt(f, Len(queue) + 1)'
  BY <1>1, <1>3, <1>4 DEF OpenAt
<1> QED
  BY <1>2, <1>4 DEF ChangeInv

\* The last settings on their way are what the editor asks for.
LEMMA WishSend ==
    ASSUME TypeOK, WishInv, NEW m, Longer(m), UNCHANGED cfg,
           m.file # None => wish' = wish, m.file = None => m.what = wish'
    PROVE  WishInv'
<1>0. Len(queue) \in Nat
  BY DEF TypeOK
<1>1. ASSUME \A i \in Range1' : queue'[i].file # None PROVE Followed'
  <2>1. \A i \in Range1 : queue[i].file # None
    BY <1>0, <1>1 DEF Longer, Range1
  <2>2. m.file # None
    BY <1>0, <1>1 DEF Longer, Range1
  <2> QED
    BY <2>1, <2>2 DEF WishInv, Followed
<1>2. ASSUME NEW i \in Range1', queue'[i].file = None,
             \A j \in (i + 1)..Len(queue') : queue'[j].file # None
      PROVE  queue'[i].what = wish'
  <2>1. CASE i = Len(queue) + 1
    BY <1>2, <2>1 DEF Longer
  <2>2. CASE i # Len(queue) + 1
    <3>1. i \in Range1 /\ queue'[i] = queue[i]
      BY <1>0, <2>2 DEF Longer, Range1
    <3>2. m.file # None
      <4>1. Len(queue) + 1 \in (i + 1)..Len(queue')
        BY <1>0, <3>1 DEF Longer, Range1
      <4> QED
        BY <1>2, <4>1 DEF Longer
    <3>3. \A j \in (i + 1)..Len(queue) : queue[j].file # None
      <4> TAKE j \in (i + 1)..Len(queue)
      <4>1. j \in Range1 /\ j \in (i + 1)..Len(queue')
        BY <1>0, <3>1 DEF Longer, Range1
      <4> QED
        BY <1>2, <4>1 DEF Longer
    <3> QED
      BY <1>2, <3>1, <3>2, <3>3 DEF WishInv
  <2> QED
    BY <2>1, <2>2
<1> QED
  BY <1>1, <1>2 DEF WishInv

LEMMA WishReceive ==
    ASSUME WishInv, Shorter, UNCHANGED wish,
           queue[1].file # None => cfg' = cfg,
           queue[1].file = None => cfg' = Applied(cfg, queue[1].what)
    PROVE  WishInv'
<1>0. 1 \in Range1
  BY DEF Shorter, Range1
<1>1. ASSUME \A i \in Range1' : queue'[i].file # None PROVE Followed'
  <2>1. ASSUME NEW j \in Range1, j # 1 PROVE queue[j].file # None
    <3>1. j - 1 \in Range1'
      BY <2>1 DEF Shorter, Range1
    <3>2. queue'[j - 1] = queue[j]
      BY <2>1, <3>1 DEF Shorter, Range1
    <3> QED
      BY <1>1, <3>1, <3>2
  <2>2. CASE queue[1].file = None
    <3>1. \A j \in (1 + 1)..Len(queue) : queue[j].file # None
      BY <2>1 DEF Range1, Shorter
    <3>2. queue[1].what = wish
      BY <1>0, <2>2, <3>1 DEF WishInv
    <3> QED
      BY <2>2, <3>2, AppliedComplete DEF Followed
  <2>3. CASE queue[1].file # None
    BY <2>1, <2>3 DEF WishInv, Followed
  <2> QED
    BY <2>2, <2>3
<1>2. ASSUME NEW i \in Range1', queue'[i].file = None,
             \A j \in (i + 1)..Len(queue') : queue'[j].file # None
      PROVE  queue'[i].what = wish'
  <2>1. i + 1 \in Range1 /\ queue'[i] = queue[i + 1]
    BY DEF Shorter, Range1
  <2>2. \A j \in ((i + 1) + 1)..Len(queue) : queue[j].file # None
    <3> TAKE j \in ((i + 1) + 1)..Len(queue)
    <3>1. j - 1 \in (i + 1)..Len(queue') /\ queue'[j - 1] = queue[j]
      BY <2>1 DEF Shorter, Range1
    <3> QED
      BY <1>2, <3>1
  <2> QED
    BY <1>2, <2>1, <2>2 DEF WishInv
<1> QED
  BY <1>1, <1>2 DEF WishInv

DocInv == BufferInv /\ ChangeInv /\ WishInv

LEMMA EditorDocs ==
    ASSUME TypeOK, DocInv,
           \/ \E f \in File : Open(f) \/ Save(f) \/ Close(f) \/ Watch(f)
           \/ \E f \in File, t \in Text : Edit(f, t)
           \/ \E f \in File, t \in Contents : Write(f, t)
           \/ \E s \in Settings : Configure(s)
    PROVE  DocInv'
<1>0. /\ buffer \in [File -> Contents] /\ disk \in [File -> Contents]
      /\ None \notin File /\ None \notin Text
  BY ServerConstants DEF TypeOK
<1>s. ASSUME NEW m, Longer(m), UNCHANGED serverVars,
             \A g \in File : ~IsDoc(m, g) => buffer'[g] = buffer[g],
             \A g \in File : IsDoc(m, g) => m.what = buffer'[g],
             \A g \in File : buffer'[g] # None =>
                ~IsClose(m, g) /\ (buffer[g] # None \/ IsOpen(m, g)),
             \A g \in File : m.file = g /\ m.kind = "didChange" => buffer[g] # None,
             m.file # None => wish' = wish, m.file = None => m.what = wish'
      PROVE  DocInv'
  <2>1. BufferInv'
    BY <1>s, BufferSend DEF DocInv, serverVars
  <2>2. ChangeInv'
    BY <1>s, ChangeSend DEF DocInv, serverVars
  <2>3. WishInv'
    BY <1>s, WishSend DEF DocInv, serverVars
  <2> QED
    BY <2>1, <2>2, <2>3 DEF DocInv
<1>1. ASSUME NEW f \in File, Open(f) PROVE DocInv'
  <2> DEFINE m == Message("didOpen", f, disk[f])
  <2>1. /\ Longer(m) /\ UNCHANGED serverVars
        /\ buffer' = [buffer EXCEPT ![f] = disk[f]] /\ wish' = wish
    BY <1>1, SendFacts DEF Open
  <2>2. m.kind = "didOpen" /\ m.file = f /\ m.what = disk[f]
    BY DEF Message
  <2> HIDE DEF m
  <2> QED
    BY <1>0, <1>s, <2>1, <2>2 DEF IsDoc, IsOpen, IsClose
<1>2. ASSUME NEW f \in File, Save(f) PROVE DocInv'
  <2> DEFINE m == Message("didSave", f, None)
  <2>1. Longer(m) /\ UNCHANGED serverVars /\ UNCHANGED <<buffer, wish>>
    BY <1>2, SendFacts DEF Save
  <2>2. m.kind = "didSave" /\ m.file = f
    BY DEF Message
  <2> HIDE DEF m
  <2> QED
    BY <1>0, <1>s, <2>1, <2>2 DEF IsDoc, IsOpen, IsClose
<1>3. ASSUME NEW f \in File, Close(f) PROVE DocInv'
  <2> DEFINE m == Message("didClose", f, None)
  <2>1. /\ Longer(m) /\ UNCHANGED serverVars
        /\ buffer' = [buffer EXCEPT ![f] = None] /\ wish' = wish
    BY <1>3, SendFacts DEF Close
  <2>2. m.kind = "didClose" /\ m.file = f /\ m.what = None
    BY DEF Message
  <2> HIDE DEF m
  <2> QED
    BY <1>0, <1>s, <2>1, <2>2 DEF IsDoc, IsOpen, IsClose
<1>4. ASSUME NEW f \in File, Watch(f) PROVE DocInv'
  <2> DEFINE m == Message(IF disk[f] = None THEN "deleted" ELSE "changed", f, None)
  <2>1. Longer(m) /\ UNCHANGED serverVars /\ UNCHANGED <<buffer, wish>>
    BY <1>4, SendFacts DEF Watch
  <2>2. m.kind \in {"deleted", "changed"} /\ m.file = f
    BY DEF Message
  <2> HIDE DEF m
  <2> QED
    BY <1>0, <1>s, <2>1, <2>2 DEF IsDoc, IsOpen, IsClose
<1>5. ASSUME NEW f \in File, NEW t \in Text, Edit(f, t) PROVE DocInv'
  <2> DEFINE m == Message("didChange", f, t)
  <2>1. /\ Longer(m) /\ UNCHANGED serverVars /\ buffer[f] # None
        /\ buffer' = [buffer EXCEPT ![f] = t] /\ wish' = wish
    BY <1>5, SendFacts DEF Edit
  <2>2. m.kind = "didChange" /\ m.file = f /\ m.what = t
    BY DEF Message
  <2> HIDE DEF m
  <2> QED
    BY <1>0, <1>s, <2>1, <2>2 DEF IsDoc, IsOpen, IsClose
<1>6. ASSUME NEW f \in File, NEW t \in Contents, Write(f, t) PROVE DocInv'
  BY <1>6 DEF Write, serverVars, DocInv, BufferInv, ChangeInv, WishInv, Followed,
                OpenAt, Range1
<1>7. ASSUME NEW s \in Settings, Configure(s) PROVE DocInv'
  <2> DEFINE m == Message("didChangeConfiguration", None, s)
  <2>1. Longer(m) /\ UNCHANGED serverVars /\ buffer' = buffer /\ wish' = s
    BY <1>7, SendFacts DEF Configure
  <2>2. m.kind = "didChangeConfiguration" /\ m.file = None /\ m.what = s
    BY DEF Message
  <2> HIDE DEF m
  <2> QED
    BY <1>0, <1>s, <2>1, <2>2 DEF IsDoc, IsOpen, IsClose
<1> QED
  BY <1>1, <1>2, <1>3, <1>4, <1>5, <1>6, <1>7
\* An analysis shows what it was made of.
LEMMA AnalyseShows ==
    ASSUME TypeOK, ShownInv, docs' \in [File -> Contents],
           NEW ds \in [File -> Contents], NEW fresh \in SUBSET File,
           Analyse(ds, fresh),
           \A f \in fresh : docs'[f] # None,
           \A f \in File \ fresh :
                docs'[f] = docs[f] /\ (docs[f] = None \/ cfg' = cfg)
    PROVE  ShownInv' /\ UnitsInv'
<1>1. /\ Looked(ds, fresh)
      /\ shown' = [f \in File |->
                    IF f \in fresh THEN [text |-> docs'[f], cfg |-> cfg']
                    ELSE shown[f]]
  BY AnalyseFacts
<1>2. ASSUME NEW f \in File
      PROVE  shown'[f] = IF docs'[f] = None THEN NoDiags
                         ELSE [text |-> docs'[f], cfg |-> cfg']
  <2>1. CASE f \in fresh
    BY <1>1, <2>1
  <2>2. CASE f \notin fresh
    BY <1>1, <2>2 DEF ShownInv
  <2> QED
    BY <2>1, <2>2
<1>3. ShownInv'
  BY <1>2 DEF ShownInv
<1>4. UnitsInv'
  BY <1>1 DEF UnitsInv, Looked
<1> QED
  BY <1>3, <1>4

LEMMA ServerDocs ==
    ASSUME TypeOK, DocInv, ShownInv, UnitsInv,
           \/ DidOpen \/ DidChange \/ DidSave \/ DidClose
           \/ DidChangeConfiguration \/ Deleted \/ Changed \/ Request
    PROVE  DocInv' /\ ShownInv' /\ UnitsInv'
<1> DEFINE m == queue[1]
<1>0. /\ docs \in [File -> Contents] /\ docs' \in [File -> Contents]
      /\ None \notin Text /\ None \notin File
  BY ServerTyped, ServerConstants DEF TypeOK
<1>1. ASSUME NEW kind, Receive(kind)
      PROVE  /\ Shorter /\ UNCHANGED <<buffer, wish, disk>>
             /\ Head(queue) = m /\ m \in Messages /\ m.kind = kind
  BY <1>1, ReceiveFacts DEF editorVars
<1>2. ASSUME NEW f \in File, Shorter, m.file = f, m.kind = "didChange"
      PROVE  docs[f] # None
  <2>1. 1 \in Range1
    BY <1>2 DEF Shorter, Range1
  <2>2. OpenAt(f, 1)
    BY <1>2, <2>1 DEF DocInv, ChangeInv
  <2> QED
    BY <2>2 DEF OpenAt
<1>s. ASSUME Shorter, UNCHANGED <<buffer, wish>>,
             \A f \in File : ~IsDoc(m, f) => docs'[f] = docs[f],
             \A f \in File : IsDoc(m, f) => docs'[f] = m.what,
             \A f \in File : docs[f] # None /\ ~IsClose(m, f) => docs'[f] # None,
             \A f \in File : IsOpen(m, f) => docs'[f] # None,
             m.file # None => cfg' = cfg, m.file = None => cfg' = Applied(cfg, m.what)
      PROVE  DocInv'
  <2>1. BufferInv'
    BY <1>s, BufferReceive DEF DocInv
  <2>2. ChangeInv'
    BY <1>s, ChangeReceive DEF DocInv
  <2>3. WishInv'
    BY <1>s, WishReceive DEF DocInv
  <2> QED
    BY <2>1, <2>2, <2>3 DEF DocInv
<1>3. CASE DidOpen
  <2>1. /\ Shorter /\ UNCHANGED <<buffer, wish, disk, cfg>>
        /\ Head(queue) = m /\ m \in Messages /\ m.kind = "didOpen"
    BY <1>1, <1>3 DEF DidOpen
  <2>2. PICK f \in File : f = m.file /\ m.what \in Text
    BY <2>1, MessageFacts
  <2>3. docs' = [docs EXCEPT ![f] = m.what] /\ Analyse(docs, {f})
    BY <1>3, <2>1, <2>2 DEF DidOpen
  <2>4. docs'[f] = m.what /\ \A g \in File \ {f} : docs'[g] = docs[g]
    BY <1>0, <2>3
  <2>5. DocInv'
    BY <1>0, <1>s, <2>1, <2>2, <2>4 DEF IsDoc, IsOpen, IsClose
  <2>6. ShownInv' /\ UnitsInv'
    <3>1. PICK fresh \in SUBSET File : fresh = {f}
      OBVIOUS
    <3> QED
      BY <1>0, <2>1, <2>2, <2>3, <2>4, <3>1, AnalyseShows
  <2> QED
    BY <2>5, <2>6
<1>4. CASE DidChange
  <2>1. /\ Shorter /\ UNCHANGED <<buffer, wish, disk, cfg>>
        /\ Head(queue) = m /\ m \in Messages /\ m.kind = "didChange"
    BY <1>1, <1>4 DEF DidChange
  <2>2. PICK f \in File : f = m.file /\ m.what \in Text
    BY <2>1, MessageFacts
  <2>3. docs[f] # None
    BY <1>2, <2>1, <2>2
  <2>4. docs' = [docs EXCEPT ![f] = m.what] /\ Analyse(docs', {f})
    BY <1>4, <2>1, <2>2, <2>3 DEF DidChange
  <2>5. docs'[f] = m.what /\ \A g \in File \ {f} : docs'[g] = docs[g]
    BY <1>0, <2>4
  <2>6. DocInv'
    BY <1>0, <1>s, <2>1, <2>2, <2>5 DEF IsDoc, IsOpen, IsClose
  <2>7. ShownInv' /\ UnitsInv'
    <3>1. PICK fresh \in SUBSET File : fresh = {f}
      OBVIOUS
    <3>2. PICK ds \in [File -> Contents] : ds = docs'
      BY <1>0
    <3>3. Analyse(ds, fresh)
      BY <2>4, <3>1, <3>2
    <3> QED
      BY <1>0, <2>1, <2>2, <2>5, <3>1, <3>3, AnalyseShows
  <2> QED
    BY <2>6, <2>7
<1>5. CASE DidSave
  <2>1. /\ Shorter /\ UNCHANGED <<buffer, wish, disk, cfg, docs>>
        /\ Head(queue) = m /\ m \in Messages /\ m.kind = "didSave"
    BY <1>1, <1>5 DEF DidSave
  <2>2. PICK f \in File : f = m.file
    BY <2>1, MessageFacts
  <2>3. DocInv'
    BY <1>0, <1>s, <2>1, <2>2 DEF IsDoc, IsOpen, IsClose
  <2>4. CASE docs[f] = None
    <3>1. UNCHANGED <<index, known, shown>>
      BY <1>5, <2>1, <2>2, <2>4 DEF DidSave
    <3> QED
      BY <2>1, <2>3, <3>1 DEF ShownInv, UnitsInv
  <2>5. CASE docs[f] # None
    <3>1. PICK fresh \in SUBSET File : fresh = {f}
      OBVIOUS
    <3>2. Analyse(docs, fresh)
      BY <1>5, <2>1, <2>2, <2>5, <3>1 DEF DidSave
    <3> QED
      BY <1>0, <2>1, <2>3, <2>5, <3>1, <3>2, AnalyseShows
  <2> QED
    BY <2>4, <2>5
<1>6. CASE DidClose
  <2>1. /\ Shorter /\ UNCHANGED <<buffer, wish, disk, cfg, index, known>>
        /\ Head(queue) = m /\ m \in Messages /\ m.kind = "didClose"
    BY <1>1, <1>6 DEF DidClose
  <2>2. PICK f \in File : f = m.file /\ m.what = None
    BY <2>1, MessageFacts
  <2>3. docs' = [docs EXCEPT ![f] = None] /\ shown' = [shown EXCEPT ![f] = NoDiags]
    BY <1>6, <2>1, <2>2 DEF DidClose
  <2>4. docs'[f] = None /\ \A g \in File \ {f} : docs'[g] = docs[g]
    BY <1>0, <2>3
  <2>5. DocInv'
    BY <1>0, <1>s, <2>1, <2>2, <2>4 DEF IsDoc, IsOpen, IsClose
  <2>6. ShownInv' /\ UnitsInv'
    BY <2>1, <2>3, <2>4 DEF ShownInv, UnitsInv, TypeOK
  <2> QED
    BY <2>5, <2>6
<1>7. CASE DidChangeConfiguration
  <2>1. /\ Shorter /\ UNCHANGED <<buffer, wish, disk, docs>>
        /\ Head(queue) = m /\ m \in Messages /\ m.kind = "didChangeConfiguration"
    BY <1>1, <1>7 DEF DidChangeConfiguration
  <2>2. m.file = None /\ cfg' = Applied(cfg, m.what)
    BY <1>7, <2>1, MessageFacts DEF DidChangeConfiguration
  <2>3. DocInv'
    BY <1>0, <1>s, <2>1, <2>2 DEF IsDoc, IsOpen, IsClose
  <2>4. CASE cfg' = cfg
    <3>1. UNCHANGED <<index, known, shown>>
      BY <1>7, <2>4 DEF DidChangeConfiguration
    <3> QED
      BY <2>1, <2>3, <2>4, <3>1 DEF ShownInv, UnitsInv
  <2>5. CASE cfg' # cfg
    <3>1. PICK open \in SUBSET File : open = {f \in File : docs[f] # None}
      OBVIOUS
    <3>2. Analyse(docs, open)
      BY <1>7, <2>5, <3>1 DEF DidChangeConfiguration
    <3>3. /\ \A f \in open : docs'[f] # None
          /\ \A f \in File \ open : docs'[f] = docs[f] /\ docs[f] = None
      BY <2>1, <3>1
    <3> QED
      BY <1>0, <2>3, <3>2, <3>3, AnalyseShows
  <2> QED
    BY <2>4, <2>5
<1>8. CASE Deleted \/ Changed
  <2>1. /\ Shorter /\ UNCHANGED <<buffer, wish, disk, cfg, docs, shown>>
        /\ m \in Messages /\ m.kind \in {"deleted", "changed"}
    BY <1>1, <1>8 DEF Deleted, Changed
  <2>2. PICK f \in File : f = m.file
    BY <2>1, MessageFacts
  <2>3. DocInv'
    BY <1>0, <1>s, <2>1, <2>2 DEF IsDoc, IsOpen, IsClose
  <2>4. ShownInv'
    BY <2>1 DEF ShownInv
  <2>5. UnitsInv'
    <3>1. known' = Units(index') \/ (known' = known /\ index' = index)
      BY <1>8 DEF Deleted, Changed
    <3> QED
      BY <3>1 DEF UnitsInv
  <2> QED
    BY <2>3, <2>4, <2>5
<1>9. CASE Request
  <2>1. UNCHANGED <<buffer, wish, queue, docs, cfg, shown>> /\ known' = Units(index')
    BY <1>9 DEF Request, LookUp, editorVars
  <2>2. DocInv'
    BY <2>1 DEF DocInv, BufferInv, ChangeInv, WishInv, Followed,
                OpenAt, Range1
  <2> QED
    BY <2>1, <2>2 DEF ShownInv, UnitsInv
<1> QED
  BY <1>3, <1>4, <1>5, <1>6, <1>7, <1>8, <1>9

-----------------------------------------------------------------------------
(* The invariant, and what follows from it. *)

LEMMA InitInv == Init => IInv
<1> SUFFICES ASSUME Init PROVE IInv
  OBVIOUS
<1>1. TypeOK
  BY InitTyped
<1>2. /\ Range1 = {} /\ Len(queue) = 0 /\ buffer = docs /\ cache = docs
      /\ docs = [f \in File |-> None] /\ index = disk /\ known = Units(index)
      /\ shown = [f \in File |-> NoDiags] /\ cfg = Applied(Default, wish)
  BY DEF Init, Range1
<1>3. EventInv /\ CacheInv /\ IndexInv
  BY <1>2 DEF EventInv, CacheInv, IndexInv
<1>4. BufferInv /\ ChangeInv /\ WishInv
  BY <1>2 DEF BufferInv, ChangeInv, WishInv, Followed
<1>5. ShownInv /\ UnitsInv
  BY <1>2 DEF ShownInv, UnitsInv
<1> QED
  BY <1>1, <1>3, <1>4, <1>5 DEF IInv

LEMMA StepInv == IInv /\ [Next]_vars => IInv'
<1> SUFFICES ASSUME IInv, [Next]_vars PROVE IInv'
  OBVIOUS
<1>1. TypeOK /\ TypeOK'
  BY Typed DEF IInv
<1>2. CASE \/ \E f \in File : Open(f) \/ Save(f) \/ Close(f) \/ Watch(f)
           \/ \E f \in File, t \in Text : Edit(f, t)
           \/ \E f \in File, t \in Contents : Write(f, t)
           \/ \E s \in Settings : Configure(s)
  <2>1. EditorStep
    BY <1>1, <1>2, EditorSteps
  <2>2. EventInv' /\ CacheInv' /\ IndexInv'
    BY <1>1, <2>1, EditorEvents, EditorTables DEF IInv
  <2>3. DocInv'
    BY <1>1, <1>2, EditorDocs DEF IInv, DocInv
  <2>4. ShownInv' /\ UnitsInv'
    BY <2>1 DEF IInv, EditorStep, serverVars, ShownInv, UnitsInv
  <2> QED
    BY <1>1, <2>2, <2>3, <2>4 DEF IInv, DocInv
<1>3. CASE \/ DidOpen \/ DidChange \/ DidSave \/ DidClose
           \/ DidChangeConfiguration \/ Deleted \/ Changed \/ Request
  <2>1. EventInv' /\ CacheInv' /\ IndexInv'
    BY <1>1, <1>3, ServerTables DEF IInv
  <2>2. DocInv' /\ ShownInv' /\ UnitsInv'
    BY <1>1, <1>3, ServerDocs DEF IInv, DocInv
  <2> QED
    BY <1>1, <2>1, <2>2 DEF IInv, DocInv
<1>4. CASE UNCHANGED vars
  <2>1. EventInv' /\ CacheInv' /\ IndexInv'
    BY <1>4 DEF IInv, vars, editorVars, serverVars, EventInv, CacheInv, IndexInv,
                Due, Range1
  <2>2. BufferInv' /\ ChangeInv' /\ WishInv'
    BY <1>4 DEF IInv, vars, editorVars, serverVars, BufferInv, ChangeInv, WishInv, Followed,
                OpenAt, Range1
  <2>3. ShownInv' /\ UnitsInv'
    BY <1>4 DEF IInv, vars, serverVars, ShownInv, UnitsInv
  <2> QED
    BY <1>1, <2>1, <2>2, <2>3 DEF IInv
<1> QED
  BY <1>2, <1>3, <1>4 DEF Next

\* What the server remembers agrees with the editor and with the files, or a
\* message will put it right: every step of the editor, of the watcher and of
\* a handler keeps this.
THEOREM Invariance == Spec => []IInv
BY InitInv, StepInv, PTL DEF Spec

\* The types hold in every reachable state.
THEOREM TypeCorrect == Spec => []TypeOK
<1>1. IInv => TypeOK
  BY DEF IInv
<1> QED
  BY <1>1, Invariance, PTL

\* Without a message about f on its way no event for f is due.
LEMMA NothingDue ==
    ASSUME NEW f \in File, ~Pending(f)
    PROVE  ~Due(f)
BY DEF Pending, Due, IsEvent, Range1

\* The declarations used for a closed file are those on disk once its events
\* are in (decl_doc_index_for_uri).
THEOREM DeclarationsFresh == Spec => []DeclsFresh
<1>1. IInv => DeclsFresh
  <2> SUFFICES ASSUME IInv, NEW f \in File, docs[f] = None, ~Pending(f)
               PROVE  Decls(f) = disk[f]
    BY DEF DeclsFresh
  <2> QED
    BY NothingDue DEF IInv, CacheInv, Decls, TextOf
<1> QED
  BY <1>1, Invariance, PTL

\* A settled file is indexed with its contents (g_unit_docs).
LEMMA SettledIndex ==
    ASSUME IInv, NEW f \in File, Settled(f)
    PROVE  index[f] = disk[f]
BY NothingDue DEF IInv, IndexInv, Settled

\* The index has every settled file as it is on disk.
THEOREM IndexFollowsDisk == Spec => []IndexTracksDisk
<1>1. IInv => IndexTracksDisk
  BY SettledIndex DEF IndexTracksDisk
<1> QED
  BY <1>1, Invariance, PTL

\* The units of settled files are known, and no units of files that are gone
\* (rebuild_known_units).
THEOREM WorkspaceUnits == Spec => []UnitsKnown
<1>1. ASSUME IInv PROVE UnitsKnown
  <2>1. ASSUME NEW f \in File, Settled(f), disk[f] # None
        PROVE  disk[f] \in known
    BY <1>1, <2>1, SettledIndex DEF IInv, UnitsInv, Units
  <2>2. ASSUME \A f \in File : Settled(f)
        PROVE  known = Units(disk)
    <3>1. \A f \in File : index[f] = disk[f]
      BY <1>1, <2>2, SettledIndex
    <3> QED
      BY <1>1, <3>1 DEF IInv, UnitsInv, Units
  <2> QED
    BY <2>1, <2>2 DEF UnitsKnown
<1> QED
  BY <1>1, Invariance, PTL

\* The diagnostics on the screen are of the buffer and under the present
\* configuration when no message about the file is on its way, and that is the
\* one the editor asks for when it asks for all of it and was heard
\* (publish_diags, apply_server_config).
THEOREM DiagnosticsFresh == Spec => []ShownFresh
<1>1. ASSUME IInv PROVE ShownFresh
  <2> SUFFICES ASSUME NEW f \in File, \A i \in 1..Len(queue) : queue[i].file # f
               PROVE  /\ shown[f] = IF buffer[f] = None THEN NoDiags
                                    ELSE [text |-> buffer[f], cfg |-> cfg]
                      /\ (\A i \in 1..Len(queue) : queue[i].file # None)
                            /\ Complete(wish) /\ buffer[f] # None =>
                         shown[f].cfg = Applied(Default, wish)
    BY DEF ShownFresh
  <2>1. docs[f] = buffer[f]
    BY <1>1 DEF IInv, BufferInv, IsDoc, Range1
  <2>2. shown[f] = IF buffer[f] = None THEN NoDiags
                   ELSE [text |-> buffer[f], cfg |-> cfg]
    BY <1>1, <2>1 DEF IInv, ShownInv
  <2>3. (\A i \in 1..Len(queue) : queue[i].file # None) => Followed
    BY <1>1 DEF IInv, WishInv, Range1
  <2> QED
    BY <2>2, <2>3 DEF Followed
<1> QED
  BY <1>1, Invariance, PTL
=============================================================================
