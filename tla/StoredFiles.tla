----------------------------- MODULE StoredFiles -----------------------------
(***************************************************************************)
(* Files in two stores (src/lib/storage/index.ts): the bytes are an object *)
(* in MinIO, the metadata a row of stored_files that names the object.     *)
(* Nothing spans the two stores: an upload and a deletion are each two     *)
(* steps, and a request that fails between them is not taken back.         *)
(* No page calls these functions yet; requests are those of their callers. *)
(***************************************************************************)
EXTENDS Integers, FiniteSets

CONSTANTS
  Clients,  \* concurrent requests
  ObjectKeys,     \* object keys; randomUUID never repeats one
  NoKey

ASSUME ObjectKeysAssumption == NoKey \notin ObjectKeys

VARIABLES
  bucket,   \* is there a bucket
  object,   \* keys of the objects
  row,      \* objectKey of the rows
  minted,   \* keys ever generated
  dropped,  \* keys whose object a deletion has removed
  client    \* what each request is doing, and what the last one brought

filesVars == <<bucket, object, row, minted, dropped, client>>

\* A file as assertUploadAllowed sees it.
Size == {"empty", "fits", "too large"}
ContentType == {"image/jpeg", "image/png", "image/webp", "application/pdf", "other"}
AllowedImages == {"image/jpeg", "image/png", "image/webp"}
AllowedDocuments == AllowedImages \cup {"application/pdf"}
ImageCategories == {"product-images", "dispenser-images"}
UploadCategory ==
  ImageCategories \cup {"payment-evidence", "support-attachments",
                        "customer-uploads", "system-documents"}

File == [size : Size, type : ContentType]

UploadAllowed(file, category) ==
  /\ file.size = "fits"
  /\ file.type \in IF category \in ImageCategories THEN AllowedImages
                                                   ELSE AllowedDocuments

\* "read": getObjectBuffer gave the bytes; "missing": it threw.
Rest == [op : {"idle", "done", "refused", "read", "missing"}, key : {NoKey}]
Busy == [op : {"checked", "put", "removing", "removed", "reading"}, key : ObjectKeys]

FilesTypeOK ==
  /\ bucket \in BOOLEAN
  /\ object \subseteq ObjectKeys /\ row \subseteq ObjectKeys
  /\ minted \subseteq ObjectKeys /\ dropped \subseteq ObjectKeys
  /\ client \in [Clients -> Rest \cup Busy]

FilesInit ==
  /\ bucket = FALSE
  /\ object = {} /\ row = {} /\ minted = {} /\ dropped = {}
  /\ client = [c \in Clients |-> [op |-> "idle", key |-> NoKey]]

Goes(c, op, key) == client' = [client EXCEPT ![c] = [op |-> op, key |-> key]]

-----------------------------------------------------------------------------
(* uploadFile                                                              *)

FreshKeys == ObjectKeys \ minted

\* Checked before a byte is written; then the bucket is made if need be.
BeginUpload(c, file, category) ==
  /\ client[c] \in Rest
  /\ IF UploadAllowed(file, category)
       THEN \E key \in FreshKeys :
              /\ bucket' = TRUE
              /\ minted' = minted \cup {key}
              /\ Goes(c, "checked", key)
              /\ UNCHANGED <<object, row, dropped>>
       ELSE /\ Goes(c, "refused", NoKey)
            /\ UNCHANGED <<bucket, object, row, minted, dropped>>

\* Mutant of PutObject: the row is created first.
CreateRowFirst(c) ==
  /\ client[c].op = "checked"
  /\ row' = row \cup {client[c].key}
  /\ Goes(c, "put", client[c].key)
  /\ UNCHANGED <<bucket, object, minted, dropped>>

PutObject(c) ==
  /\ client[c].op = "checked"
  /\ object' = object \cup {client[c].key}
  /\ Goes(c, "put", client[c].key)
  /\ UNCHANGED <<bucket, row, minted, dropped>>

CreateRow(c) ==
  /\ client[c].op = "put"
  /\ row' = row \cup {client[c].key}
  /\ Goes(c, "done", NoKey)
  /\ UNCHANGED <<bucket, object, minted, dropped>>

-----------------------------------------------------------------------------
(* deleteFile and getObjectBuffer, for a key that a row gave the caller.   *)

BeginDelete(c, key) ==
  /\ client[c] \in Rest /\ key \in row
  /\ Goes(c, "removing", key)
  /\ UNCHANGED <<bucket, object, row, minted, dropped>>

\* Removing an object that is not there is no error.
RemoveObject(c) ==
  /\ client[c].op = "removing"
  /\ object' = object \ {client[c].key}
  /\ dropped' = dropped \cup {client[c].key}
  /\ Goes(c, "removed", client[c].key)
  /\ UNCHANGED <<bucket, row, minted>>

\* deleteMany: nor is a row that is not there.
DeleteRow(c) ==
  /\ client[c].op = "removed"
  /\ row' = row \ {client[c].key}
  /\ Goes(c, "done", NoKey)
  /\ UNCHANGED <<bucket, object, minted, dropped>>

BeginRead(c, key) ==
  /\ client[c] \in Rest /\ key \in row
  /\ Goes(c, "reading", key)
  /\ UNCHANGED <<bucket, object, row, minted, dropped>>

Read(c) ==
  /\ client[c].op = "reading"
  /\ Goes(c, IF client[c].key \in object THEN "read" ELSE "missing", NoKey)
  /\ UNCHANGED <<bucket, object, row, minted, dropped>>

\* MinIO, the database or the server fails; what is done stays done.
Fails(c) ==
  /\ client[c] \in Busy
  /\ Goes(c, "idle", NoKey)
  /\ UNCHANGED <<bucket, object, row, minted, dropped>>

FilesNext ==
  \E c \in Clients :
    \/ \E file \in File, category \in UploadCategory : BeginUpload(c, file, category)
    \/ PutObject(c) \/ CreateRow(c)
    \/ \E key \in ObjectKeys : BeginDelete(c, key) \/ BeginRead(c, key)
    \/ RemoveObject(c) \/ DeleteRow(c) \/ Read(c) \/ Fails(c)

FilesSpec == FilesInit /\ [][FilesNext]_filesVars

-----------------------------------------------------------------------------
\* Wherever uploads, deletions and failures interleave, a row without its object
\* is the trace of a deletion that has not been finished, never of an upload:
\* putObject comes before the insert, removeObject before the delete.
RowsHaveObjects == \A key \in row \ object : key \in dropped

\* Once some deletion of a file has gone through, the file is gone from both
\* stores, and no late step of another request brings it back; also when the
\* deletion that went through is the repetition of one that failed half-way.
DeletedForGood ==
  [][\A key \in dropped : /\ key \notin object'
                          /\ key \notin row => key \notin row']_filesVars

=============================================================================
