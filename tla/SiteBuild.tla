----------------------------- MODULE SiteBuild ------------------------------
(***************************************************************************)
(* How the site is made and reaches a reader: build_site.jsx, the steps of *)
(* pages.yml around it, and a browser that caches what it loads.           *)
(*                                                                         *)
(* Build n makes floppy image n, and its hash is taken to tell it from     *)
(* every other; what a file holds is the number of the build that wrote    *)
(* it.  The URL of the image is the image it names, or 0 when it names     *)
(* none.  Every step may fail and end the build.                           *)
(***************************************************************************)
EXTENDS Naturals, SitePages

CONSTANT MaxBuilds    \* bound: builds

ASSUME SiteBuildAssumption == MaxBuilds \in Nat

VARIABLES
    n,          \* the number of the last build
    step,       \* what it does next
    given,      \* it has been given an image
    lain,       \* globalThis.LAIN_IMG_URL
    imageUrl,   \* what copyIfImage returned
    link,       \* the image that RunPage's download link names, fixed by the import
    docs,       \* build/.resolved-docs: the excerpts of each page, lines resolved
    out,        \* the output directory
    site,       \* what is published
    cache,      \* the reader's browser: the run page, and images by their URL
    tab,        \* the run page the reader has open
    booted      \* the image it has booted, or 0

buildVars == <<n, step, given, lain, imageUrl, link, docs, out>>
readerVars == <<cache, tab, booted>>
siteVars == <<buildVars, site, readerVars>>

IMAGE == "shell_monkey.img"
Assets == {"app.js", ".nojekyll", "ogcard.png", IMAGE}
RUN == PAGE_BY_ROUTE["run"]
Image == 0 .. MaxBuilds

(* A file: the build that wrote it; of a page, the image that its script's *)
(* LAIN_IMG_URL and its download link name; of a page and of the bundle,   *)
(* whether a gutter it renders shows the name of an anchor.                *)
File == [build : 0 .. MaxBuilds, config : Image, link : Image, names : BOOLEAN]
Asset(build) == [build |-> build, config |-> 0, link |-> 0, names |-> FALSE]
Absent == Asset(0)
NoFiles == [f \in Files \cup Assets |-> Absent]

BuildInit ==
    /\ n = 0 /\ step = "idle" /\ given = FALSE
    /\ lain = 0 /\ imageUrl = 0 /\ link = 0
    /\ docs = [r \in Routes |-> {}]
    /\ out = NoFiles /\ site = NoFiles
    /\ cache = [page |-> Absent, image |-> [v \in Image |-> 0]]
    /\ tab = Absent
    /\ booted = 0

-----------------------------------------------------------------------------
(* build_site.jsx *)

Fails ==
    /\ step \notin {"idle", "built", "failed"}
    /\ step' = "failed"
    /\ UNCHANGED <<n, given, lain, imageUrl, link, docs, out, site, readerVars>>

(* make has made a new image, and main removes the old output: a failure   *)
(* of that is not noticed, and may leave any of the old files.             *)
Begin ==
    /\ step \in {"idle", "built", "failed"}
    /\ n < MaxBuilds
    /\ n' = n + 1
    /\ given' \in BOOLEAN
    /\ \E left \in {{}, Assets, Files \cup Assets} :
          out' = [f \in DOMAIN out |-> IF f \in left THEN out[f] ELSE Absent]
    /\ step' = "image"
    /\ lain' = 0
    /\ UNCHANGED <<imageUrl, link, docs, site, readerVars>>

Plain(image) == 0                       \* mutant: a URL that names no image
Versioned(image) == image

CopyIfImage ==
    /\ step = "image"
    /\ imageUrl' = IF given THEN Versioned(n) ELSE 0
    /\ out' = IF given THEN [out EXCEPT ![IMAGE] = Asset(n)] ELSE out
    /\ step' = "resolve"
    /\ UNCHANGED <<n, given, lain, link, docs, site, readerVars>>

SetUrlLater(url) == lain                \* mutant: after the pages are imported
SetUrl(url) == url

Unresolved(e) == e                      \* mutant: the docs are copied as they are

(* resolve_doc_anchors.py (FILE_DECL_RE): the anchors of an excerpt become *)
(* numbers when its source is given as "file"; no other key is looked for. *)
Resolved(e) == IF e.key = "file" THEN Numbered(e.key) ELSE e

(* The pages' modules read LAIN_IMG_URL once, when they are imported from  *)
(* the resolver's copy; "shell_monkey.img" when it is not set.             *)
ResolveDocAnchors ==
    /\ step = "resolve"
    /\ docs' = [r \in Routes |-> {Resolved(e) : e \in Excerpts(r)}]
    /\ lain' = SetUrl(imageUrl)
    /\ link' = lain'
    /\ step' = "pages"
    /\ UNCHANGED <<n, given, imageUrl, out, site, readerVars>>

(* The pages are written in their order; a failure may come between two. *)
PageFile(i) == PAGE_BY_ROUTE[SITE_PAGES[i]]
WritePage ==
    /\ step = "pages"
    /\ \E i \in 1 .. Len(SITE_PAGES) :
          /\ out[PageFile(i)].build # n
          /\ \A j \in 1 .. i - 1 : out[PageFile(j)].build = n
          /\ out' = [out EXCEPT ![PageFile(i)] =
                        [build |-> n, config |-> imageUrl, link |-> link,
                         names |-> ShowsNames(docs[SITE_PAGES[i]])]]
          /\ step' = IF i = Len(SITE_PAGES) THEN "bundle" ELSE "pages"
    /\ UNCHANGED <<n, given, lain, imageUrl, link, docs, site, readerVars>>

GoOn(s) == "rest"                       \* mutant: the bundler's exit code is ignored
ExitIfFailed(s) == s

(* The bundle is made from docs/site (APP_SRC), not from the resolver's    *)
(* copy.                                                                   *)
RunBundle ==
    /\ step = "bundle"
    /\ \/ /\ out' = [out EXCEPT !["app.js"] =
                         [build |-> n, config |-> 0, link |-> 0,
                          names |-> ShowsNames(UNION {Excerpts(r) : r \in Routes})]]
          /\ step' = "rest"
       \/ out' = out /\ step' = ExitIfFailed("failed")
    /\ UNCHANGED <<n, given, lain, imageUrl, link, docs, site, readerVars>>

(* The last files, and a check that the pages, the bundle and the image    *)
(* are there.                                                              *)
Rest ==
    /\ step = "rest"
    /\ out' = [out EXCEPT ![".nojekyll"] = Asset(n), !["ogcard.png"] = Asset(n)]
    /\ step' = IF \A f \in Files \cup {"app.js"} \cup (IF given THEN {IMAGE} ELSE {}) :
                     out[f] # Absent
               THEN "built" ELSE "failed"
    /\ UNCHANGED <<n, given, lain, imageUrl, link, docs, site, readerVars>>

(* pages.yml: make site must succeed, with its default image. *)
Publish ==
    /\ step = "built" /\ given
    /\ site # out
    /\ site' = out
    /\ UNCHANGED <<buildVars, readerVars>>

-----------------------------------------------------------------------------
(* The reader *)

(* The page comes from the cache, while that is fresh, or from the site. *)
OpenPage ==
    /\ \E page \in {cache.page, site[RUN]} \ {Absent} :
          tab' = page /\ cache' = [cache EXCEPT !.page = page]
    /\ booted' = 0
    /\ UNCHANGED <<buildVars, site>>

(* Power on: the machine loads the URL that the page's LAIN_IMG_URL names. *)
(* The site's server ignores the query that the version is.                *)
BootImage ==
    /\ tab # Absent
    /\ \E image \in {cache.image[tab.config], site[IMAGE].build} \ {0} :
          /\ booted' = image
          /\ cache' = [cache EXCEPT !.image[tab.config] = image]
    /\ UNCHANGED <<buildVars, site, tab>>

BuildNext ==
    \/ Begin \/ CopyIfImage \/ ResolveDocAnchors \/ WritePage \/ RunBundle \/ Rest \/ Fails
    \/ Publish
    \/ OpenPage
    \/ BootImage

BuildSpec == BuildInit /\ [][BuildNext]_siteVars

-----------------------------------------------------------------------------
(* Properties *)

BuildTypeOK ==
    /\ n \in 0 .. MaxBuilds /\ given \in BOOLEAN
    /\ step \in {"idle", "image", "resolve", "pages", "bundle", "rest", "built", "failed"}
    /\ {lain, imageUrl, link, booted} \subseteq Image
    /\ docs \in [Routes -> SUBSET [key : {"file", "codeFile"}, named : BOOLEAN]]
    /\ out \in [Files \cup Assets -> File] /\ site \in [Files \cup Assets -> File]
    /\ cache \in [page : File, image : [Image -> Image]] /\ tab \in File

(* What is published is one build: no page, script or image of an earlier  *)
(* one is left in it, though the old output may not have gone away and the *)
(* steps that replace it may fail.                                         *)
PublishedIsOneBuild == \A f, g \in Files \cup Assets : site[f].build = site[g].build

(* The download link, made when the pages are rendered, and the script's   *)
(* URL name the image that is published beside them.                       *)
LinksNameTheImage == \A f \in Files : {site[f].config, site[f].link} = {site[IMAGE].build}

(* meta/issues/harden-interactive-docs-delivery.md:19, "The deployed image *)
(* URL changes or is cache-busted when the underlying image changes": no   *)
(* reader boots an image older than the page, whatever the browser caches. *)
BootsNoOlderImage == booted # 0 => booted >= tab.build

(* scripts/resolve_doc_anchors.py:6-8: the code blocks need "numeric line  *)
(* numbers for its gutter, so this script copies the docs to a staging     *)
(* directory with every anchor replaced".  The published pages show        *)
(* numbers, all but the DOS API page, whose excerpts name their source in  *)
(* a way that the script does not look for.                                *)
PagesShowNumbers == \A f \in Files \ {PAGE_BY_ROUTE["dosapi"]} : ~site[f].names
=============================================================================
