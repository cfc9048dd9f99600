------------------------------ MODULE Transfers ------------------------------
(***************************************************************************)
(* How a remote is reached: which library handles a URL, and with which    *)
(* options rclone is run, for listings in app/net/indexer.py and for       *)
(* downloads in app/net/fetcher.py.  Three places may give an option a     *)
(* value: the settings, the configuration of the remote (its ci_ entries)  *)
(* and the cachelink.                                                      *)
(***************************************************************************)
Options == {"bandwidth_limit", "transfer_concurrency", "checkers", "timeout",
            "retries"}

\* None and "" say nothing; the number 0 is a value that counts as false.
Unset == {"None", "blank"}
Falsy == Unset \cup {"0"}

NoOptions == [o \in Options |-> "None"]

\* Names of remotes, in URLs and in cachelinks; a remote that the settings do
\* not have is like one without ci_ entries.
NoRemote == "None"

-----------------------------------------------------------------------------
(* Handlers.                                                               *)

Schemes == {"http", "ftp", "rclone", "other"}

\* What is no handler's name counts as auto.
NormalHandler(handler) ==
    CASE handler \in {"rclone", "rclone-python"} -> "rclone"
      [] handler \in {"http", "https", "ftp", "ftps"} -> handler
      [] OTHER -> "auto"

ResolvedHandler(scheme, handler) ==
    IF NormalHandler(handler) # "auto" THEN NormalHandler(handler)
    ELSE IF scheme = "other" THEN "auto" ELSE scheme

\* RemoteListingFetcher.fetch: what asks for the listing.  An http URL is
\* asked for by HTTP also if its handler is ftp.
ListedBy(scheme, handler) ==
    LET h == ResolvedHandler(scheme, handler)
    IN  CASE h = "rclone" -> "rclone"
          [] h \in {"http", "https"} \/ (h # "rclone" /\ scheme = "http") -> "http"
          [] h \in {"ftp", "ftps"} /\ scheme # "http" -> "ftp"
          [] OTHER -> "unsupported"

\* download_file: what fetches the file, where curl goes by the scheme.
FetchedBy(scheme, handler) ==
    IF ResolvedHandler(scheme, handler) = "rclone" THEN "rclone" ELSE "curl"

-----------------------------------------------------------------------------
(* Options.                                                                *)

\* What remote says over what is there already.
Over(there, says) ==
    [o \in Options |-> IF says[o] \in Unset THEN there[o] ELSE says[o]]

\* _rclone_remote_overrides.
RemoteOverrides(remotes, name) ==
    IF name \in DOMAIN remotes THEN remotes[name] ELSE NoOptions

\* _merge_rclone_options.
MergedOptions(settings, says) == Over(settings, says)

\* _rclone_flags: only the retries may be zero.
Flags(merged) ==
    {<<o, merged[o]>> : o \in {p \in Options : merged[p] \notin Falsy}}
        \cup (IF merged["retries"] = "None" THEN {}
              ELSE {<<"retries", merged["retries"]>>})

\* _rclone_options_for_descriptor and _fetch_rclone_listing: the remote is the
\* one the cachelink names.
ListingOptions(settings, remotes, cachelink) ==
    MergedOptions(settings, Over(RemoteOverrides(remotes, cachelink.rclone_remote),
                                 cachelink.says))

ListingFlags(settings, remotes, cachelink) ==
    Flags(ListingOptions(settings, remotes, cachelink))

\* _rclone_remote_from_url.
RemoteOfUrl(url, handler) ==
    IF url.scheme = "rclone" \/ handler = "rclone" THEN url.remote ELSE NoRemote

\* preview_listing: the remote is that of the URL; there is no cachelink yet.
PreviewFlags(settings, remotes, url, handler) ==
    Flags(MergedOptions(settings,
                        RemoteOverrides(remotes, RemoteOfUrl(url, handler))))

\* test_rclone_remote.
TestFlags(settings, remotes, name) ==
    Flags(MergedOptions(settings, RemoteOverrides(remotes, name)))

\* _download_rclone, with what a request, the availability probe or, saying
\* nothing, the download queue passes: the remote is that of the URL.
DownloadOptions(settings, remotes, url, says) ==
    MergedOptions(settings, Over(RemoteOverrides(remotes, url.remote), says))

DownloadFlags(settings, remotes, url, says) ==
    Flags(DownloadOptions(settings, remotes, url, says))
=============================================================================
