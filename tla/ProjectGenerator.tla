-------------------------- MODULE ProjectGenerator --------------------------
(***************************************************************************)
(* cmd/glacier-toolchain: `project init` asks its questions and renders    *)
(* the templates one by one into a directory of the project's name, below  *)
(* the working directory; `project add` finds the settings of a project    *)
(* under GOPATH, renders the templates of an application and registers it  *)
(* in apps/all.  Any question may be interrupted, any template fail to     *)
(* render or to be written, and the tool be killed between two of them.    *)
(*                                                                         *)
(* Texts that are answered are left out: a section of the configuration is *)
(* the set of its fields that were filled in.                              *)
(***************************************************************************)
EXTENDS Naturals, Sequences, SequencesExt, FiniteSetsExt

CONSTANTS
  Templates,   \* the templates in the order they are walked: their area, the
               \* file they make, the variant their name ends in ("" if none)
               \* and the sections of the configuration they use
  Answers,     \* answers to the questions: auth, n and m (see below), cache,
               \* db, and framework ("" for no example)
  AppNames,    \* names given to `add`
  MaxRuns      \* bound on the number of runs of the tool

VARIABLES
  disk,    \* what is there of the project: the files that are whole, the
           \* directories of its applications, the settings, and api.go and
           \* impl.go of apps/all: what they import and what their text is
  job,     \* the run of the tool that is under way
  runs,    \* number of runs so far
  failed,  \* why the last run failed: "" if it did not
  strayed  \* `add` was run where the project is not below

genVars == <<disk, job, runs, failed, strayed>>

None == [none |-> TRUE]
Example == "example"

-----------------------------------------------------------------------------
(* The questions.  A dialog stops at the first question that is            *)
(* interrupted; n were answered before.  No caller looks at its error.     *)

Answered(questions, n) == {questions[i] : i \in 1 .. IF n < Len(questions) THEN n ELSE Len(questions)}
NotAsked == {"not asked"}

\* Seeded fault: the section is made when its dialog is through.
LoadMemoryConfig_AtEnd(n) == IF n < 2 THEN NotAsked ELSE Answered(<<"TTL", "Size">>, n)

LoadMemoryConfig(n) == Answered(<<"TTL", "Size">>, n)
LoadRedisConfig(n) == Answered(<<"Address", "Password", "Prefix", "DB", "DefaultTTL">>, n)
LoadMySQLConfig(n) == Answered(<<"Host:Port", "Database", "UserName", "Password">>, n)
LoadPostgreSQLConfig(n) == Answered(<<"Host:Port", "Database", "UserName", "Password">>, n)
LoadMongoDBConfig(n) ==
  Answered(<<"Endpoints", "AuthDB", "UserName", "Password", "Database">>, n)

\* The cache is chosen in the dialog of the permission centre, as the fourth
\* question, and asked about in one more.
LoadGlacierAuthConfig(n, cache, m) ==
  [ GlacierAuth |-> Answered(<<"Host:Port", "ClientID", "ClientSecret">>, n),
    cache       |-> IF n < 4 THEN "" ELSE cache,
    Memory      |-> IF n >= 4 /\ cache = "Memory" THEN LoadMemoryConfig(m) ELSE NotAsked,
    Redis       |-> IF n >= 4 /\ cache = "Redis" THEN LoadRedisConfig(m) ELSE NotAsked ]

NoAuth == [GlacierAuth |-> NotAsked, cache |-> "", Memory |-> NotAsked, Redis |-> NotAsked]

\* The questions are interrupted before the n-th of the permission centre and
\* the m-th of the dialogs of cache and database, or not.  An interruption of the
\* others cancels the run, but no answer about the example is taken for no.
LoadConfigFromCLI(a) ==
  LET auth == IF a.auth THEN LoadGlacierAuthConfig(a.n, a.cache, a.m) ELSE NoAuth
      sections == [ GlacierAuth |-> auth.GlacierAuth, Memory |-> auth.Memory, Redis |-> auth.Redis,
                    MySQL |-> LoadMySQLConfig(a.m), PostgreSQL |-> LoadPostgreSQLConfig(a.m),
                    MongoDB |-> LoadMongoDBConfig(a.m) ]
      asked == {a.db, "GlacierAuth", "Memory", "Redis"}
  IN  [ EnableGlacierAuth |-> a.auth,
        sections |-> [s \in DOMAIN sections |-> IF s \in asked THEN sections[s] ELSE NotAsked],
        enabled |-> {a.db, auth.cache},
        GenExample |-> a.framework # "", HttpFramework |-> a.framework ]

\* What .toolchain.yaml keeps of it.
Saved(p) == [EnableGlacierAuth |-> p.EnableGlacierAuth, enabled |-> p.enabled,
             GenExample |-> p.GenExample, HttpFramework |-> p.HttpFramework]

-----------------------------------------------------------------------------
(* The templates *)

OfApp(t) == t.area \in {"api", "app", "impl", "pb"}

NeedsSQL(p, t) == t.area = "impl" /\ t.file = "sql.go" /\ p.enabled \cap {"MySQL", "PostgreSQL"} = {}

\* What Init leaves out: the example, or all but the example in the framework
\* chosen; the client without the permission centre; SQL without a database.
InitSkips(p, t) ==
  \/ ~ p.GenExample /\ OfApp(t)
  \/ p.GenExample /\ t.area = "api" /\ p.HttpFramework # "" /\ t.variant # p.HttpFramework
  \/ p.GenExample /\ OfApp(t) /\ ~ (t.area = "api" /\ p.HttpFramework # "") /\ t.variant # Example
  \/ p.GenExample /\ t.area = "protocol" /\ t.file = "http.go" /\ p.HttpFramework # ""
     /\ t.variant # p.HttpFramework
  \/ ~ p.EnableGlacierAuth /\ t.area = "client"
  \/ NeedsSQL(p, t)

\* What Add leaves out: everything but the empty application.
AddSkips(p, t) ==
  \/ ~ OfApp(t)
  \/ t.area = "api" /\ p.HttpFramework # "" /\ t.variant # p.HttpFramework
  \/ t.variant = Example
  \/ NeedsSQL(p, t)

\* The name without the ending of the framework, of Init also without .example.
FileName(p, t, endings) ==
  <<t.file, IF t.variant \in endings \cup {p.HttpFramework} THEN "" ELSE t.variant>>

\* The file that a run makes of a template.
FileOf(cmd, p, tree, app, t) ==
  [tree |-> tree, app |-> IF OfApp(t) THEN app ELSE "", area |-> t.area,
   name |-> FileName(p, t, IF cmd = "init" THEN {"", Example} ELSE {""})]

\* A section that is used where it is enabled must exist; that of PostgreSQL
\* lacks the fields that etc/config.toml.tpl asks it for.
RenderFails(p, t) ==
  \E s \in t.uses \cap p.enabled : s = "PostgreSQL" \/ p.sections[s] = NotAsked

-----------------------------------------------------------------------------
(* The tool *)

NoJob == [cmd |-> "none"]
NewDisk == [files |-> {}, dirs |-> {}, settings |-> None, api |-> None, impl |-> None]

Init ==
  /\ disk = NewDisk /\ job = NoJob /\ runs = 0 /\ failed = "" /\ strayed = FALSE

Start(j) ==
  /\ job = NoJob /\ runs < MaxRuns /\ runs' = runs + 1
  /\ job' = j /\ failed' = ""

\* `project init`, from the directory of the project's parent.
InitProject(p) ==
  /\ Start([cmd |-> "init", at |-> 1, p |-> p, app |-> Example, tree |-> "GOPATH"])
  /\ UNCHANGED <<disk, strayed>>

\* `project add`, if there are settings and the application has no directory
\* under GOPATH.  It renders below the working directory, and below another name
\* if the project's own has "example" in it, which is then replaced.
AddApp(app, tree) ==
  /\ disk.settings # None /\ <<"GOPATH", app>> \notin disk.dirs
  /\ Start([cmd |-> "add", at |-> 1, p |-> disk.settings, app |-> app, tree |-> tree])
  /\ strayed' = (strayed \/ tree # "GOPATH")
  /\ UNCHANGED disk

Skips(t) == IF job.cmd = "init" THEN InitSkips(job.p, t) ELSE AddSkips(job.p, t)
Pending == {i \in job.at .. Len(Templates) : ~ Skips(Templates[i])}
Walking == job # NoJob /\ job.cmd \in {"init", "add"} /\ Pending # {}
Template == Templates[Min(Pending)]

Target == FileOf(job.cmd, job.p, job.tree, job.app, Template)
WithDir == IF OfApp(Template) THEN disk.dirs \cup {<<job.tree, job.app>>} ELSE disk.dirs

\* A file of apps/all, as Init renders it and as it is before it is written.
Rendered ==
  [ imports |-> IF job.p.GenExample
                THEN <<[app |-> Example, root |-> "PKG", p |-> Saved(job.p)]>> ELSE <<>>,
    text    |-> "Go" ]
Blank == [imports |-> <<>>, text |-> "empty"]

\* d with what is in the file, if it is api.go or impl.go of apps/all.
InAll(d, content) ==
  CASE Template.area = "all" /\ Template.file = "api.go"  -> [d EXCEPT !.api = content]
    [] Template.area = "all" /\ Template.file = "impl.go" -> [d EXCEPT !.impl = content]
    [] OTHER -> d

\* ioutil.WriteFile empties the file before it writes: what is left of the
\* file in between.
Opened == [InAll(disk, Blank) EXCEPT !.dirs = WithDir, !.files = @ \ {Target}]

RenderEnds == job.cmd = "init" /\ RenderFails(job.p, Template)

\* What a template that is not gone through with may leave behind.
HalfWay == {disk, [disk EXCEPT !.dirs = WithDir]} \cup (IF RenderEnds THEN {} ELSE {Opened})

\* rendTemplate and rendAdd: the directory, then the file.
Render ==
  /\ Walking /\ ~ RenderEnds
  /\ disk' = [InAll(disk, Rendered) EXCEPT !.dirs = WithDir, !.files = @ \cup {Target}]
  /\ job' = [job EXCEPT !.at = Min(Pending) + 1]
  /\ UNCHANGED <<runs, failed, strayed>>

\* Seeded fault: what the walk returned is not looked at.
RenderError_Dropped ==
  /\ Walking
  /\ disk' = [disk EXCEPT !.dirs = WithDir]
  /\ job' = [job EXCEPT !.at = Len(Templates) + 1]
  /\ failed' = "write"
  /\ UNCHANGED <<runs, strayed>>

\* A directory that cannot be made, a template that cannot be rendered, or a
\* file that cannot be written, ends the walk and the run.
RenderError ==
  /\ Walking
  /\ disk' \in HalfWay
  /\ failed' = IF RenderEnds THEN "render" ELSE "write"
  /\ job' = NoJob
  /\ UNCHANGED <<runs, strayed>>

Through(cmd) == job # NoJob /\ job.cmd = cmd /\ Pending = {}

\* SaveFile; a failure is only printed.
SaveFile(works) ==
  /\ Through("init")
  /\ disk' = IF works THEN [disk EXCEPT !.settings = Saved(job.p)] ELSE disk
  /\ job' = NoJob
  /\ UNCHANGED <<runs, failed, strayed>>

\* registryAdd puts an import before the last parenthesis, below p.Name where
\* Init and the templates have p.PKG, and after the four characters \r\n, which
\* end no line in a raw string: the file is no Go from then on.
Register(file) ==
  [ imports |-> Append(file.imports, [app |-> job.app, root |-> "Name", p |-> job.p]),
    text    |-> "not Go" ]

\* registryAdd for api.go, then for impl.go.  Its errors are ignored, among
\* them that there is no file; a text without a parenthesis makes it panic.
RegisterApi(works) ==
  /\ Through("add")
  /\ works => disk.api # None
  /\ IF works /\ disk.api.text = "empty"
     THEN job' = NoJob /\ failed' = "panic" /\ UNCHANGED disk
     ELSE /\ job' = [job EXCEPT !.cmd = "register"]
          /\ disk' = IF works THEN [disk EXCEPT !.api = Register(@)] ELSE disk
          /\ UNCHANGED failed
  /\ UNCHANGED <<runs, strayed>>

RegisterImpl(works) ==
  /\ job # NoJob /\ job.cmd = "register"
  /\ works => disk.impl # None
  /\ job' = NoJob
  /\ IF works /\ disk.impl.text = "empty"
     THEN failed' = "panic" /\ UNCHANGED disk
     ELSE /\ disk' = IF works THEN [disk EXCEPT !.impl = Register(@)] ELSE disk
          /\ UNCHANGED failed
  /\ UNCHANGED <<runs, strayed>>

\* The tool is killed, while it writes a file of a template or otherwise.
Kill ==
  /\ job # NoJob
  /\ disk' \in {disk} \cup (IF Walking THEN HalfWay ELSE {})
  /\ job' = NoJob /\ failed' = "killed"
  /\ UNCHANGED <<runs, strayed>>

Next ==
  \/ \E a \in Answers : InitProject(LoadConfigFromCLI(a))
  \/ \E app \in AppNames, tree \in {"GOPATH", "elsewhere"} : AddApp(app, tree)
  \/ Render
  \/ RenderError
  \/ \E works \in BOOLEAN : SaveFile(works)
  \/ \E works \in BOOLEAN : RegisterApi(works)
  \/ \E works \in BOOLEAN : RegisterImpl(works)
  \/ Kill

Spec == Init /\ [][Next]_genVars

-----------------------------------------------------------------------------
(* Properties *)

\* Whichever questions were interrupted, no template fails for want of a section
\* of the configuration, except that of PostgreSQL.
SectionsReady ==
  job # NoJob /\ job.cmd = "init" =>
    \A t \in ToSet(Templates) : RenderFails(job.p, t) => "PostgreSQL" \in job.p.enabled

\* The imports of a file of apps/all that `add` wrote.
Added(file) == {m \in DOMAIN file.imports : file.imports[m].root = "Name"}

\* The files that a run of `add` is to make of an application.
AddFiles(p, app) ==
  {FileOf("add", p, "GOPATH", app, t) : t \in {t \in ToSet(Templates) : ~ AddSkips(p, t)}}

\* What `add` registers ("注册", project.go:444) it has generated as a whole: each
\* file of apps/all names an application once, and every file that the run was
\* to make of it is there and was written to its end, however the runs before
\* and after it ended; apart from runs of `add` that are not below GOPATH.
\* That the text it writes is no Go is not what this is about.
RegisteredIsWhole ==
  ~ strayed => \A file \in {disk.api, disk.impl} \ {None} : \A m \in Added(file) :
    LET i == file.imports[m]
    IN  /\ \A n \in Added(file) : file.imports[n].app = i.app => n = m
        /\ AddFiles(i.p, i.app) \subseteq disk.files

=============================================================================
