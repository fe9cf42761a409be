--------------------------- MODULE LanguageServer ---------------------------
(***************************************************************************)
(* The language server (apps/kinal-lsp/server/src/main.cpp): the editor,   *)
(* the messages on their way, and what the server remembers of the files   *)
(* of the workspace. The server handles one message after another.         *)
(*                                                                         *)
(* A text stands for the unit it declares. URIs are in the spelling that   *)
(* canonical_file_uri gives. Every message names one file: a batch of file *)
(* events is a sequence of messages here.                                  *)
(***************************************************************************)
EXTENDS Sequences, FiniteSets, Naturals

CONSTANTS
    File,      \* the source files under the workspace roots
    Text,      \* what a file may contain
    Locale,    \* locale files, which give the texts of the diagnostics
    NoLocale,  \* the texts built into the compiler, which are English
    ZhLocale,  \* the locale file found beside the server, or NoLocale
    Settings,  \* the settings the editor may send
    None,      \* no file, no text, no entry, no such setting
    MaxQueue   \* bound on the messages on their way

Lang == {"en", "zh"}

\* A language the server does not know is English to it, and "auto" is as no
\* language at all; a locale file may be set to none.
Setting == [language : Lang \cup {None},
            localeFile : Locale \cup {NoLocale, None}]

ASSUME ServerConstants ==
    /\ None \notin File \cup Text \cup Lang \cup Locale \cup {NoLocale}
    /\ NoLocale \notin Locale /\ ZhLocale \in Locale \cup {NoLocale}
    /\ Settings \subseteq Setting
    /\ MaxQueue \in Nat

VARIABLES
    disk,      \* the files
    buffer,    \* the documents open in the editor
    dirty,     \* files changed on disk, with no event sent yet
    wish,      \* the settings the editor sent last
    queue,     \* messages to the server
    docs,      \* g_docs: texts of the open documents
    index,     \* g_unit_docs: the text each file was indexed from
    known,     \* g_known_units
    cache,     \* g_decl_doc_cache: the text the declarations are of
    cfg,       \* g_cfg: language of the labels, locale file of the texts
    shown,     \* the diagnostics last published for a file
    left       \* history: files closed with a text that is not on disk

editorVars == <<disk, buffer, dirty, wish>>
serverVars == <<docs, index, known, cache, cfg, shown, left>>
vars == <<editorVars, queue, serverVars>>

Contents == Text \cup {None}

\* Mutant: entries whose file is gone still name a unit.
Units_Gone(idx) == {idx[f] : f \in File}

Units(idx) == {idx[f] : f \in File} \ {None}

NoDiags == [text |-> None, cfg |-> None]
Message(kind, file, what) == [kind |-> kind, file |-> file, what |-> what]

\* What the editor may send: didOpen and didChange carry the whole text, and
\* the server asks for no text with didSave (init_json).
Messages ==
    [kind : {"didOpen", "didChange"}, file : File, what : Text]
    \cup [kind : {"didSave", "didClose", "deleted", "changed"},
          file : File, what : {None}]
    \cup [kind : {"didChangeConfiguration"}, file : {None}, what : Settings]

Config == [lang : Lang, locale : Locale \cup {NoLocale}]
Default == [lang |-> "en", locale |-> NoLocale]

NoSetting == [language |-> None, localeFile |-> None]

\* apply_server_config: what is not in the settings stays as it is, the locale
\* file that was found for Chinese too.
Applied(c, s) ==
    LET lang == IF s.language = None THEN c.lang ELSE s.language
        file == IF s.localeFile = None THEN c.locale ELSE s.localeFile
    IN  [lang |-> lang,
         locale |-> IF file = NoLocale /\ lang = "zh" THEN ZhLocale ELSE file]

\* initialize: its options are applied, index_workspace reads every file.
Init ==
    /\ disk \in [File -> Contents]
    /\ index = disk /\ known = Units(disk)
    /\ wish \in Settings \cup {NoSetting} /\ cfg = Applied(Default, wish)
    /\ buffer = [f \in File |-> None] /\ docs = buffer /\ cache = buffer
    /\ dirty = {} /\ left = {} /\ queue = <<>>
    /\ shown = [f \in File |-> NoDiags]

-----------------------------------------------------------------------------
(* The editor, and other programs that write the files. *)

Send(kind, file, what) ==
    /\ Len(queue) < MaxQueue
    /\ queue' = Append(queue, Message(kind, file, what))
    /\ UNCHANGED serverVars

Open(f) ==
    /\ buffer[f] = None /\ disk[f] # None
    /\ buffer' = [buffer EXCEPT ![f] = disk[f]]
    /\ Send("didOpen", f, disk[f])
    /\ UNCHANGED <<disk, dirty, wish>>

Edit(f, t) ==
    /\ buffer[f] \notin {None, t}
    /\ buffer' = [buffer EXCEPT ![f] = t]
    /\ Send("didChange", f, t)
    /\ UNCHANGED <<disk, dirty, wish>>

Save(f) ==
    /\ buffer[f] # None
    /\ disk' = [disk EXCEPT ![f] = buffer[f]]
    /\ dirty' = dirty \cup {f}
    /\ Send("didSave", f, None)
    /\ UNCHANGED <<buffer, wish>>

Close(f) ==
    /\ buffer[f] # None
    /\ buffer' = [buffer EXCEPT ![f] = None]
    /\ Send("didClose", f, None)
    /\ UNCHANGED <<disk, dirty, wish>>

Configure(s) ==
    /\ wish' = s
    /\ Send("didChangeConfiguration", None, s)
    /\ UNCHANGED <<disk, buffer, dirty>>

\* Another program writes or deletes the file.
Write(f, t) ==
    /\ t # disk[f]
    /\ disk' = [disk EXCEPT ![f] = t]
    /\ dirty' = dirty \cup {f}
    /\ UNCHANGED <<buffer, wish, queue, serverVars>>

\* The editor's file watcher reports what it finds, some time later.
Watch(f) ==
    /\ f \in dirty /\ dirty' = dirty \ {f}
    /\ Send(IF disk[f] = None THEN "deleted" ELSE "changed", f, None)
    /\ UNCHANGED <<disk, buffer, wish>>

-----------------------------------------------------------------------------
(* The server. *)

Receive(kind) ==
    /\ queue # <<>> /\ Head(queue).kind = kind
    /\ queue' = Tail(queue)
    /\ UNCHANGED editorVars

\* load_doc_text_for_uri: the open document, else the file.
TextOf(ds, f) == IF ds[f] # None THEN ds[f] ELSE disk[f]

\* Files that discover_declaring_unit_uris_from_roots may index: those of
\* the roots it walks that have no entry yet. It reads the files on disk.
Discoverable == {f \in File : index[f] = None /\ disk[f] # None}

\* The tables after files have been looked up while the open documents are
\* ds: some were found on disk, some looked up again by the name of their
\* unit, and the declarations of some were read; after that the open
\* documents in "fresh" are indexed from their texts.
LookUp(ds, fresh, found, again, read) ==
    /\ index' = [f \in File |->
                    IF f \in fresh THEN docs'[f]
                    ELSE IF f \in again THEN TextOf(ds, f)
                    ELSE IF f \in found THEN disk[f] ELSE index[f]]
    /\ known' = Units(index')
    /\ LET kept(f) == IF f \in found \cup again THEN None ELSE cache[f] IN
        cache' = [f \in File |->
                    IF f \in fresh THEN None
                    ELSE IF /\ f \in read /\ index'[f] # None
                            /\ ds[f] = None /\ kept(f) = None
                         THEN disk[f] ELSE kept(f)]

\* update_analysis of the documents in "fresh", then update_unit_index_for_uri
\* and publish_diags of each.
Analyse(ds, fresh) ==
    /\ \E found \in SUBSET Discoverable, read \in SUBSET File,
          again \in SUBSET {f \in File : disk[f] # None} :
              LookUp(ds, fresh, found, again, read)
    /\ shown' = [f \in File |->
                    IF f \in fresh THEN [text |-> docs'[f], cfg |-> cfg']
                    ELSE shown[f]]

\* The document is analysed before it is in g_docs.
DidOpen ==
    /\ Receive("didOpen") /\ UNCHANGED cfg
    /\ LET m == Head(queue) IN
        /\ docs' = [docs EXCEPT ![m.file] = m.what]
        /\ Analyse(docs, {m.file})
        /\ left' = left \ {m.file}

DidChange ==
    /\ Receive("didChange") /\ UNCHANGED <<cfg, left>>
    /\ LET m == Head(queue) IN
        IF docs[m.file] = None THEN UNCHANGED <<docs, index, known, cache, shown>>
        ELSE /\ docs' = [docs EXCEPT ![m.file] = m.what]
             /\ Analyse(docs', {m.file})

DidSave ==
    /\ Receive("didSave") /\ UNCHANGED <<docs, cfg, left>>
    /\ LET f == Head(queue).file IN
        IF docs[f] = None THEN UNCHANGED <<index, known, cache, shown>>
        ELSE Analyse(docs, {f})

\* The index keeps what it has of the file.
DidClose ==
    /\ Receive("didClose")
    /\ LET f == Head(queue).file IN
        /\ docs' = [docs EXCEPT ![f] = None]
        /\ shown' = [shown EXCEPT ![f] = NoDiags]
        /\ left' = IF docs[f] # disk[f] THEN left \cup {f} ELSE left
    /\ UNCHANGED <<index, known, cache, cfg>>

\* Mutant: nothing is analysed again when only the locale file changes.
DidChangeConfiguration_LabelsOnly ==
    /\ Receive("didChangeConfiguration") /\ UNCHANGED <<docs, left>>
    /\ cfg' = Applied(cfg, Head(queue).what)
    /\ IF cfg'.lang = cfg.lang THEN UNCHANGED <<index, known, cache, shown>>
       ELSE Analyse(docs, {f \in File : docs[f] # None})

\* Every open document is analysed again, under the new configuration.
DidChangeConfiguration ==
    /\ Receive("didChangeConfiguration") /\ UNCHANGED <<docs, left>>
    /\ cfg' = Applied(cfg, Head(queue).what)
    /\ IF cfg' = cfg THEN UNCHANGED <<index, known, cache, shown>>
       ELSE Analyse(docs, {f \in File : docs[f] # None})

\* Mutant: the index keeps a file that was deleted.
Deleted_KeepsIndex ==
    /\ Receive("deleted")
    /\ LET f == Head(queue).file IN
        /\ cache' = [cache EXCEPT ![f] = None]
        /\ left' = left \ {f}
    /\ UNCHANGED <<index, known, docs, cfg, shown>>

\* Mutant: the known units are not built again.
Deleted_KeepsUnits ==
    /\ Receive("deleted")
    /\ LET f == Head(queue).file IN
        /\ index' = [index EXCEPT ![f] = None]
        /\ cache' = [cache EXCEPT ![f] = None]
        /\ left' = left \ {f}
    /\ UNCHANGED <<known, docs, cfg, shown>>

Deleted ==
    /\ Receive("deleted")
    /\ LET f == Head(queue).file IN
        /\ index' = [index EXCEPT ![f] = None]
        /\ cache' = [cache EXCEPT ![f] = None]
        /\ left' = left \ {f}
    /\ known' = Units(index')
    /\ UNCHANGED <<docs, cfg, shown>>

\* Mutant: the declarations of a changed file stay in the cache.
Changed_KeepsDecls ==
    /\ Receive("changed")
    /\ LET f == Head(queue).file IN
        IF disk[f] = None THEN UNCHANGED <<index, known, left>>
        ELSE /\ index' = [index EXCEPT ![f] = disk[f]]
             /\ known' = Units(index')
             /\ left' = left \ {f}
    /\ UNCHANGED <<cache, docs, cfg, shown>>

\* The file may be gone by now: then the event is dropped.
Changed ==
    /\ Receive("changed")
    /\ LET f == Head(queue).file IN
        IF disk[f] = None THEN UNCHANGED <<index, known, cache, left>>
        ELSE /\ index' = [index EXCEPT ![f] = disk[f]]
             /\ cache' = [cache EXCEPT ![f] = None]
             /\ known' = Units(index')
             /\ left' = left \ {f}
    /\ UNCHANGED <<docs, cfg, shown>>

\* Completion, hover, definition, references, kinal/stdlibText: the answer is
\* made of the tables, some of which are filled on the way.
Request ==
    /\ UNCHANGED <<editorVars, queue, docs, cfg, shown, left>>
    /\ \E found \in SUBSET Discoverable, read \in SUBSET File :
          LookUp(docs, {}, found, {}, read)

Next ==
    \/ \E f \in File : Open(f) \/ Save(f) \/ Close(f) \/ Watch(f)
    \/ \E f \in File, t \in Text : Edit(f, t)
    \/ \E f \in File, t \in Contents : Write(f, t)
    \/ \E s \in Settings : Configure(s)
    \/ DidOpen \/ DidChange \/ DidSave \/ DidClose
    \/ DidChangeConfiguration \/ Deleted \/ Changed \/ Request

Spec == Init /\ [][Next]_vars

-----------------------------------------------------------------------------
(* Properties. *)

\* A message about f is on its way, or an event for f is still to be sent.
Pending(f) ==
    f \in dirty \/ \E i \in 1..Len(queue) : queue[i].file = f

\* f is closed, the server has heard all that happened to it, and it was not
\* closed with changes that were thrown away.
Settled(f) == docs[f] = None /\ ~Pending(f) /\ f \notin left

\* The declarations a request sees of f: decl_doc_index_for_uri.
Decls(f) ==
    IF docs[f] = None /\ cache[f] # None THEN cache[f] ELSE TextOf(docs, f)

\* The types of the state.
TypeOK ==
    /\ disk \in [File -> Contents] /\ buffer \in [File -> Contents]
    /\ docs \in [File -> Contents] /\ index \in [File -> Contents]
    /\ cache \in [File -> Contents] /\ known \subseteq Text
    /\ dirty \subseteq File /\ left \subseteq File
    /\ wish \in Settings \cup {NoSetting} /\ cfg \in Config
    /\ shown \in [File -> [text : Contents, cfg : Config \cup {None}]]
    /\ queue \in Seq(Messages)

\* Settings that leave nothing of the configuration before them.
Complete(s) == s.language # None /\ s.localeFile # None

\* When the server has caught up with f, the editor shows the diagnostics of
\* what is in its buffer, with labels and texts in the languages the server is
\* configured for, and none for a closed file (update_analysis before
\* publish_diags, clear_diags). When it has also caught up with settings that
\* name a language and a locale file, these are the languages asked for.
ShownFresh ==
    \A f \in File :
        (\A i \in 1..Len(queue) : queue[i].file # f) =>
            /\ shown[f] = IF buffer[f] = None THEN NoDiags
                           ELSE [text |-> buffer[f], cfg |-> cfg]
            /\ (\A i \in 1..Len(queue) : queue[i].file # None)
                   /\ Complete(wish) /\ buffer[f] # None =>
                  shown[f].cfg = Applied(Default, wish)

\* The declarations used for a file that is not open are those of the file
\* on disk, once its events are in: g_decl_doc_cache never outlives them.
DeclsFresh ==
    \A f \in File : docs[f] = None /\ ~Pending(f) => Decls(f) = disk[f]

\* The index has every settled file with its contents, and no file that is
\* gone (g_unit_docs: whatever discovery, opening, closing and late events did).
IndexTracksDisk == \A f \in File : Settled(f) => index[f] = disk[f]

\* "unit names declared in workspace": the units of settled files are known,
\* and when all files are settled no others are (rebuild_known_units).
UnitsKnown ==
    /\ \A f \in File : Settled(f) /\ disk[f] # None => disk[f] \in known
    /\ (\A f \in File : Settled(f)) => known = Units(disk)
=============================================================================
