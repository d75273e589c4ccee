----------------------------- MODULE Operations -----------------------------
(***************************************************************************)
(* The registry of src/cpanel_admin/operations.py: the fixed cPanel tasks  *)
(* of the command line and their risk.                                     *)
(***************************************************************************)

ReadOperations ==
    {"domains.list", "domains.inspect", "domains.ssl-capable",
     "files.list", "files.inspect", "files.read",
     "ssl.list", "ssl.hosts", "databases.list", "databases.users"}

MutateOperations ==
    {"domains.add-subdomain", "databases.create", "databases.create-user",
     "databases.grant"}

DestructiveOperations ==
    {"files.write", "files.upload", "files.empty-trash", "ssl.install",
     "ssl.remove", "databases.remove", "databases.remove-user"}

OPERATIONS == ReadOperations \cup MutateOperations \cup DestructiveOperations

\* Operations whose target file is looked up before anything is planned or sent.
Preflighted == {"files.write", "files.upload"}

\* The operation whose content is a local file, read when the command runs.
Uploads == {"files.upload"}

==============================================================================
