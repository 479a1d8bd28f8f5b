# Open edX in TLA+: the rows, orders and documents several processes write

The repository is the Open edX platform: an LMS and a CMS (Studio) on Django,
with Celery workers, a memcached cache, MySQL, MongoDB and three external
services that answer late: a grader and a certificate agent behind an xqueue,
a photo verification service and a payment processor.  Most of it is request
handling and rendering.  What is hard in it is where several processes work on
one row or document from copies, and where an answer comes late, twice or
never.  This directory specifies and verifies seven such parts: **instructor
tasks**, **bulk email**, **problems and student state**, **orders and
enrolments**, **photo verification**, **certificates** and the **draft
modulestore**.  Section 1 is the inventory, 2 the modules, 3 the runs, 4 the
theorems, 5 what is left out, 6 the plan.  Paths are relative to `src/`.

## 1. Inventory

### Modelled

| component | state | operations | interacts with |
|---|---|---|---|
| instructor task submission and status (`lms/djangoapps/instructor_task/api_helper.py`, `models.py`) | the `InstructorTask` rows; the state and result of a task id in Celery's backend | `submit_task`, `_reserve_task`, `InstructorTask.create`, `get_updated_instructor_task`, `_update_instructor_task` | publishes a message per task; reads what worker and handlers leave |
| instructor task execution (`instructor_task/tasks_helper.py`) | the copy of the row an execution holds; the student rows a task changes | `run_main_task`, `perform_module_state_update`, `on_success`, `on_failure`, rescoring, resetting, deleting | rows, result backend, student state |
| subtasks of an instructor task (`instructor_task/subtasks.py`) | the `subtasks` column, the counters in `task_output`, the cache key `subtask-<id>` | `queue_subtasks_for_query`, `initialize_subtask_info`, `check_subtask_is_valid`, the lock, `update_subtask_status` | parent and subtasks update one row; messages at the broker |
| bulk email sending (`lms/djangoapps/bulk_email/tasks.py`) | `SubtaskStatus` and `to_list`, which travel in the messages | `perform_delegate_email_batches`, `send_course_email`, `_send_course_email`, `_submit_for_retry` | the recipient query, Optout, the mail server, the subtasks |
| problem checking (`common/lib/xmodule/xmodule/capa_base.py`, `common/lib/capa`), partly | attempts, answers, correct map, queue key | `check_problem`, `save_problem`, `reset_problem`, `rescore_problem`, `update_score` | the student row; the external grader |
| student state storage (`lms/djangoapps/courseware`), partly | `StudentModule`: a JSON column next to a grade | `set_many`, `handle_grade_event`, `xqueue_callback` | requests, grader and instructor tasks save the whole row |
| shopping cart and orders (`lms/djangoapps/shoppingcart`), partly | `Order`, `OrderItem`, codes redeemed | the cart pages, `register_courses`, `use_code`, `create_order`, `start_purchase`, `postpay_callback`, `purchase_item`, `refund_cert_callback` | enrolment; the payment processor posts back |
| enrolment (`common/djangoapps/student`, `course_modes`), partly | `CourseEnrollment` | `enroll`, `unenroll` and its signal, modes, code redemption, mid-course reverification | orders |
| photo verification (`lms/djangoapps/verify_student`) | `SoftwareSecurePhotoVerification` attempts | creation, `submit`, `results_callback` with `approve`, `deny`, `system_error`, the retry command, `user_is_verified`, `user_is_reverified_for_all` | the external service; relied on by certificates |
| certificates queue (`lms/djangoapps/certificates`) | `GeneratedCertificate` | `add_cert`, `regen_cert`, the commands, `request_certificate`, `update_certificate` | photo verification; the agent behind the xqueue |
| draft and published modulestore (`common/lib/xmodule/xmodule/modulestore/mongo`, `cms/djangoapps/contentstore/views/item.py`), partly | two documents per block | edit, create, move, delete, discard, publish, orphans | author and students read different revisions |

What is hard in each, and what makes it correct:

* *Tasks and email*: duplicated messages, retries that carry state, a lock that
  expires or is released twice, a row saved whole by those who do not lock it,
  a backend that runs ahead of the row.  Nobody gets two emails, everybody is
  counted, SUCCESS comes with the last subtask, an end is final, one task per key.
* *Problems*: everybody saves whole rows read earlier; the grader may be faster
  than the commit of the submission it answers, or late, after a reset.
  Attempts are counted once, a score is that of the answer it stands next to,
  the grade follows the state, nothing waits for a grader that has answered.
* *Orders*: forms signed for a cart that changes, posts that come twice or after
  a refund, a purchase that commits item by item and may die, refunds from a
  signal.  What is delivered was paid for; what is refunded was paid, but for the
  exceptions section 5 names.
* *Photos and certificates*: results before the submission is saved, repeated,
  for a replaced request or two at a time; overlapping requests.  A result stands,
  nobody is vouched for without photos that passed, a file is of the recorded mode.
* *Draft store*: a request is a list of database calls without a transaction
  and may die between two; blocks move while other drafts still name them.
  Students see whole units as published; publishing shows what the author saw.

`PROJECT.json` lists the hazards, each at its line, with the properties that
would catch it.

### Not modelled

| component | why, and what would be stated |
|---|---|
| split modulestore (`modulestore/split_mongo/split.py`) | a store of its own (course indexes, immutable structures), not the one of this deployment; the next to model: no update of an index is lost silently, two writers from one structure conflict |
| open ended assessment (`open_ended_grading_classes`) | a chain of child tasks kept in the same rows as `ProblemState`; what holds of the rows holds for it, its chain (the current task is the first unfinished one) is not modelled |
| course action state (`common/djangoapps/course_action_state`) | one row, each transition a read and a save that checks what it read |
| cohorts (`common/djangoapps/course_groups/cohorts.py`) | at most one cohort per user and course; two assignments at once are not modelled |
| configuration models (`common/djangoapps/config_models`) | rows that are only added behind a cache with a timeout, which promises no more than the timeout |
| email authoring and opt-outs (`bulk_email/models.py`) | rows the tasks only read |
| instructor task views, web front ends, templates | parsing and rendering; no state of their own |

The bulk of the remaining code is graders, input types, XML parsing, settings,
views and tests: functions of their input, without steps.

## 2. Modules

Every state machine `M` comes with `MProps` (type invariant, properties),
`MCM` (definitions for TLC) and `M_proofs` (theorems).

| module | what it is |
|---|---|
| `SubtaskEntry` | the row of a task with subtasks and the pure functions on it: `InitializeSubtaskInfo`, `RejectsSubtask`, `UpdateSubtaskStatus`, `MarkFailed` |
| `CourseEmail` | parent task, subtasks, lock, broker, environment |
| `SubtaskLedger` | abstract: a set of subtasks is written down, each is closed once, the task succeeds with the last; implemented by `CourseEmail` |
| `InstructorTasks` | the life of the rows of one task key |
| `ProblemState` | the row of one student and one problem, and everybody who writes it |
| `Orders` | carts, orders, enrolments, payments and refunds of one user |
| `Identity` | abstract: what photo verification promises; **implemented by `PhotoVerification`, relied on by `Certificates`**, which extends it |
| `PhotoVerification` | the attempts of one student |
| `Certificates` | the certificate of one student in one course |
| `DraftStore` | the documents of one course in both revisions, and Studio's requests |
| `CourseEmail_proofs`, `InstructorTasks_proofs`, `ProblemState_proofs`, `Orders_proofs`, `PhotoVerification_proofs`, `Certificates_proofs`, `DraftStore_proofs` | theorems |
| `Sums_proofs` | lemmas about `SumFunctionOnSet`, the sum of a function over a finite set |

How they compose: `InstructorTasks` abstracts what subtasks do to one action,
`SubtasksFinish`, and assumes of it what `CourseEmail` establishes
(`UpdateSubtaskStatus` sets SUCCESS from PROGRESS, and `TaskFinishes`); what
the tasks do to student rows is in `ProblemState`.  `Certificates` is checked
against every behaviour of `Identity`, so what is shown of it holds with
`PhotoVerification` in its place.

A definition named `Op_Variant` is `Op` with a plausible bug: a dropped guard,
a forgotten count, a swapped condition.  `PROJECT.json` pairs every property
with one; with the variant in the place of `Op`, TLC finds the property
violated under the run's own configuration.

One action is one access to shared state wherever the code has no transaction,
and one transaction where it has (`TransactionMiddleware` wraps web requests:
they read at their start and their saves are seen together at their end).
History variables (`sent`, `checks`, `lost`, `paid`, `passed`, `raced`, ...)
are never read by guards; where a property makes an exception, a history
variable says exactly when.

### CourseEmail and the code

| action | code |
|---|---|
| `ParentRead` | `run_main_task` reads the row; `perform_delegate_email_batches` returns early when subtasks are defined; `item_queryset.count()` |
| `ParentDefine` | `initialize_subtask_info` with fresh uuid4 ids, `save_now` |
| `ParentFetch`, `ParentQueueSubtask`, `ParentDone` | `_generate_items_for_subtask` and the loop of `queue_subtasks_for_query` over `apply_async` |
| `ParentRaises` | the error exits: the course id, the `CourseEmail`, the course and `to_option` are looked at before any subtask is defined (fault `refused`), a chunk too many and `apply_async` raise after (`publish`) |
| `ParentFailRead`, `ParentFailSave` | `BaseInstructorTask.on_failure` |
| `Receive` | a worker takes (and acknowledges) a message, `send_course_email` starts |
| `CheckSubtaskIsValid`, `AcquireSubtaskLock` | `check_subtask_is_valid`, then `cache.add` |
| `StartSending`, `ConnectFails`, `EmailMissing` | the head of `_send_course_email`: the email, opt-outs, `connection.open()` |
| `SendEmail`, `AddressFails`, `SendFails`, `AllSent` | one turn of the sending loop, its except clauses, its end |
| `UpdateStatus`, `UpdateTimesOut` | `_update_subtask_status` in its transaction; `DatabaseError` and the recursive call of `update_subtask_status` |
| `ReleaseSubtaskLock` | the `finally` of each frame of `update_subtask_status` |
| `Resubmit`, `ResubmitFails` | `_submit_for_retry` after its update: `retry()` publishes, or raises anything else than `RetryTaskError` |
| `CloseFails` | `connection.close()` in the `finally` of `_send_course_email` raises |
| `Redeliver`, `LockExpires`, `WorkerCrashes`, `ParentCrashes`, `EnrollmentChanges` | the environment |

`entry` is the committed row; `parent[p]` an execution of the parent with its
copy of the row; `queue` the messages; `worker[w]` an execution of a subtask
with its program counter and locals (`frames` counts the active calls of
`update_subtask_status`); `lock` the cache keys.  Lists of recipients are sets,
since the order of the query matters to no property; counters that always equal
others (`attempted`) and the times in `task_output` are left out, except that
the output of a failed parent has no `start_time`, over which a later update
stumbles (`UpdateFails`).

### InstructorTasks and the code

| action | code |
|---|---|
| `CheckRunning`, `CreateRow`, `InputTooLong` | `_task_is_running` and `InstructorTask.create` in `_reserve_task` |
| `Publish`, `PublishFails` | `task_class.apply_async` in `submit_task` |
| `Start`, `ReadEntry`, `ReportProgress`, `DefineSubtasks`, `QueueSubtasks`, `Return`, `Raise` | `run_main_task` and what its work leaves in row and result backend |
| `HandlerReads`, `OnSuccess`, `OnFailure` | `on_success` and `on_failure`, which read the row and save it whole |
| `SubtasksFinish` | the last `update_subtask_status` |
| `PollRow`, `PollState`, `PollResult`, `SaveRevoked` | `get_updated_instructor_task` and `_update_instructor_task`, with their reads of row, state and result and the save of a revoked task |
| `Redeliver`, `WorkerCrashes`, `Revoke` | the environment |

All tasks of the module have one (course, task_type, task_key), the only scope
in which they interact.  `told` records the first final answer a status request
gave of each task, `raced` that two submissions were between check and create.

### ProblemState and the code

| action | code |
|---|---|
| `CheckProblem`, `CheckProblemQueued`, `CheckProblemUndelivered` | `check_problem` of a problem graded here, by the xqueue, and when `send_to_queue` reports an error |
| `SaveProblem`, `ResetProblem` | `save_problem` (also a check whose grading raises `StudentInputError`), `reset_problem` |
| `Commit`, `Rollback` | the end of the request: `set_many` has saved the whole row; a row created meanwhile makes it fail |
| `XqueueCallback` | `xqueue_callback` under `select_for_update`, `update_score` by queue key, the grade event: for a submission the grader has yet to answer, and again for one it has (`answered`) |
| `RescoreReads`, `RescoreGrades`, `RescoreSaves` | the query of the batch, the save of the grade, the save of the state in `rescore_problem_module_state` |
| `ResetReads`, `ResetSaves`, `DeleteReads`, `Deletes` | `reset_attempts_module_state`, `delete_problem_module_state` |
| `TaskDies`, `EditProblem` | the environment |

`tab[t].new` and `task[t].new` are the copies; `stale` those older than the
row.  A score is named by the answer and the problem version it was computed
from, so that a score next to the wrong answer is visible.  `checked` in the
map is a history field: the answer of the check that wrote it.  `lost` says
that a save has overwritten a change it had not read: the code does lose such
changes, and the properties say what holds with and without it.

### Orders and the code

| action | code |
|---|---|
| `OpenCart`, `AddCourseReads`, `AddCourse`, `ShowCart`, `ClearCart`, `RemoveItem`, `UseCode` | the cart pages of `shoppingcart/views.py` |
| `RegisterCourses`, `EnrollHonor`, `RedeemCode`, `ReverifyPage`, `Unenroll` with `RefundCert` | `register_courses`, the choice of modes, code redemption, `MidCourseReverifyView`, `CourseEnrollment.unenroll` and `refund_cert_callback` |
| `CreateOrder`, `StartPurchase`, `SignPurchase` | `create_order` of verify_student, which commits three times |
| `Pay`, `PostpayCallback`, `PurchaseNext` | the processor; `process_postpay_callback`, `_payment_accepted`, `Order.purchase` and `purchase_item`, which commits after every item |
| `RequestFails`, `CertificateGenerated`, `CourseDeleted` | the environment |

A form (`Form`) is what the processor posts back: an order and an amount.
Items are records of status and cost; amounts are small numbers.  `req[r]`
holds the copies of the three kinds of request that commit more than once or
write an order they read at their start; everything else is one transaction.

### PhotoVerification, Certificates and the code

`CreateReady`, `SubmitReady`, `Reverify` are `create_order`,
`purchased_callback` of a certificate, and the two reverification views;
`Post` and `SaveSubmission` are `send_request` and the save in `submit()`;
`RetryReads`, `RetryPosts` are `retry_failed_photo_verifications`;
`ResultsCallback` is the start of `results_callback`, which reads the attempt without
a lock and looks at that copy in `approve`, `deny` and `system_error`
(`status_before_must_be`); `SaveResult` is the save, seen when the request ends, and
`ResultDies` a request that raises.  `answers` are the results in between, `outdated`
those of them read before another one of the attempt was saved.  `Expire` is the
passing of `DAYS_GOOD_FOR`.  `UserIsVerified` and `UserIsReverified` are what others ask.

In `Certificates`, `Grade` is the body of `add_cert` up to its save;
`UngeneratedCerts`, `RegenCert`, `RegenAdds` the management commands, which
commit the row and then send (`SaveCert`, `CommandSends`); `RequestCertificate`
and `RequestSends` the student's request, which sends and then commits;
`UpdateReads`, `UpdateSaves` are `update_certificate`; `AddDies` a crash or a
queue that refuses.  `pdf` names the request a file was made for; `named` are the
requests whose template file the command named (`regenerate_user -T`), and
`TemplatePdf` is the override of `add_cert`.

### DraftStore and the code

A request is a list of database calls (`Start`), executed one by one (`Call`).
`Edit`, `Create`, `Move`, `Delete`, `Discard` and `DeleteOrphan` are the
handlers of `contentstore/views/item.py` with `update_item`, `create_child`,
`delete_item`, `revert_to_published` and the orphan handler below them;
`Convert` is `_convert_to_draft`.  `Publish` with `PublishDeletes`,
`PublishBlock` and `PublishEnds` is the depth-first publish of `draft.py`, which
deletes what a draft has dropped, saves every block after its children and
removes the drafts at its end.  `get_parent_location` picks any of several draft
parents and asserts that there is one published parent (`FoundParents`, `Twice`).
`Move` moves components, groups and units, as a save of any block with a new list of
children does: the block is taken from its parent in one save and listed in another.
A list that lacks a child the target still has is refused in between, after the block
was taken (`Refuse`).  `Converted` and `Saved` are the drafts that a conversion and a
save leave, which the next call of the same request reads (`Move`, `Delete`).

## 3. What the runs check

| run | instance | shows |
|---|---|---|
| `email_retry` | 3 recipients (1 opted out) in 2 subtasks, 2 workers, all faults but `close`, parents that raise included, one retry of each kind, one database error, one crash, locks that expire at any time | recipients stay accounted for through every attempt; retries stay within their limits; opt-outs are respected; nobody is sent two emails; counters, statuses and the progress shown agree; a done subtask is in nobody's hands; **the row implements `SubtaskLedger`** |
| `email_serial` | the same size, one duplicate delivery, errors of `close()`, executions of one subtask do not overlap | a duplicate of any attempt is recognised whenever it comes, also one whose first execution published a retry and then failed; a done subtask keeps its record |
| `email_parents` | the parent delivered twice at once, enrolments change, publishing fails, a parent is refused | nobody gets more emails than there were parents |
| `email_ends` | 1 subtask, 2 workers, 2 overlapping deliveries, expiring locks, retries that cannot be published, a refused parent, a database error | no subtask is lost between two steps; a live worker leaves no key in the cache; the task is reported as ended |
| `task_rows` | 2 submissions (one delegating), 2 workers, 2 status requests, all faults | one task at a time per key; a final answer is never taken back; an end is final and subtasks survive although views, tasks and handlers save whole copies; only subtasks end a task that has them |
| `task_ends` | 2 submissions, 2 workers, a duplicate delivery, errors; no crashes, failed publishing, revocation or status requests | every recorded task is recorded as ended |
| `problem_rows` | 2 tabs, 1 instructor task, 2 answers, 2 queue keys, 2 versions, 1 attempt allowed, answers that come again, a local problem or an external one that is reset before each check | attempts are the checks graded and never more than allowed; a score is that of the answer next to it; the grade follows the state; who waits for the grader is waiting for an answer still to come |
| `orders` | a course with a certificate and one that is paid for, 2 orders, 2 forms, 1 request with copies, a code, a course that is deleted, at most 3 paid per order | no order delivers more than was paid for it; nobody is in the verified track without a certificate bought and not refunded; no more is refunded of an order than was paid, but for those purchased again by a repeated post or registered without payment |
| `photos` | 3 attempts, 1 mid-course window, 1 submission at a time (or a retry of many), 2 overlapping callbacks | a result stands but for two saves; **the attempts implement `Identity`** |
| `certificates` | 2 overlapping executions of `add_cert`, 2 requests, templates a command names, 1 window, any behaviour of `Identity` | the file is of the recorded mode or the named template; a verified one was earned; one that is generating has a request to be answered |
| `drafts` | two sections, two units in one of them, one with a group of one component, a group to be created, 2 contents, moves of all of them, refused ones, one crash at any database call | students see whole units, only as published, whatever drafts of deleted or moved blocks stay behind; publishing shows them what the author saw and leaves no draft; the assertion of `revert_to_published` holds |
| `drafts_moved` | the same without crashes | a counterexample, see below |

The configurations not listed in `PROJECT.json` each reproduce one
counterexample (below).

### Bounds, and why they are enough

*Email and tasks.*  Two subtasks are the fewest where one is done and another
is not, and where chunking has a full and a partial batch; two workers on one
subtask are the fewest that race (`email_lock` needs a third, which finds the
lock of the second gone).  One retry of each kind makes the two limits
interact, and the next is the give-up path.  Two `update_subtask_status` frames
(`MaxDbRetries`) are the fewest that release a lock twice.  One duplicate
suffices to reach every state `RejectsSubtask` tells apart.  `MaxRedeliveries`,
`MaxDbErrors`, `MaxCrashes`, `MaxChurn` occur in the guards of the
environment's actions only.  Configurations turn faults off only to keep a run
small, and every fault is on in some run.

*Problems.*  Two tabs and a task are the fewest writers of all three kinds of
copy; two keys let an answer be late for a submission that was replaced; with
one attempt the limit is reached by the first check, so every second check is
one that must be refused, and resetting and deleting make room for more.

*Orders.*  Two orders are needed for a code or an item to move from one to the
next cart, two forms for an old one to be paid after the cart changed, prices 2
and 1 with at most 3 paid for both items, one of them, or one twice.  One
request with copies already interleaves with all pages; that two of them
overwrite each other is what `orders_paying.cfg` shows.  `Promised` prunes
histories in which a copy has overwritten the status of an order, or a
reverification page has set the mode of a student who had not paid, of which
the properties claim nothing.

*Photos and certificates.*  Three attempts give two in one window and one in
the other; two results under way (`MaxAnswers`) are the fewest of which one
overwrites the other.  `OneAtWork` leaves out states in which a result of one attempt is
under way and something is at work on another: they are rows of their own.  Two
certificate requests are the fewest of which one replaces the other.

*Drafts.*  A unit with a group has the four levels of a course; the second group
is the one created, moved into and deleted; two units are the fewest between
which a group moves, two sections between which a unit does, and one component is
enough to be dropped, moved and left behind in a stale draft.  Blocks of one category
are symmetric: only the initial tree tells them apart, and no action looks at it.
`Promised` prunes what follows a torn request and a block in two published parents, of
which nothing is claimed (section 5); `Narrow` adds that the course is spread over both
sections, or its text changed, only before the second group is created.  One request
dies (`Crash`), and any number of moves are refused.

*Symmetry elsewhere* is of recipients, subtasks, workers, tabs, answers, keys, problem
versions and executions of `add_cert`, which are only compared for equality.

`CHECK_DEADLOCK FALSE` everywhere: a task that ended, an order that is bought
and a bound that is used up stop the model, and the system really may stop.

`SerialDuplicates` restricts a run to duplicates that do not overlap; without
it the lock, taken only after the row was read, does not protect a done subtask
(`email_restart`).  `LockOutlivesWork` says that `SUBTASK_LOCK_EXPIRE` exceeds
the execution.

### Fairness

`FairSpec` of `CourseEmail` and `InstructorTasks` assumes weak fairness of each
worker's and each parent's own steps, of taking a message, and of requests:
Celery processes go on while they live, and the broker delivers what is queued.
Nothing is assumed of faults, lock expiry or the environment; faults end because
the code bounds retries and the configuration bounds database errors.  The
liveness runs have no crashes: a worker acknowledges a message when it starts
(`CELERY_ACKS_LATE` is not set), nothing recovers a subtask that dies with it,
and no liveness holds then.  `InstructorTasks` also assumes that queued subtasks
end, which `email_ends` checks.

The other modules have no liveness properties.  Nothing drives a user to pay or
publish, the external services owe no answer, and where an answer is lost (a
result that comes before its submission is saved, a certificate row saved by a
command that then dies) the code has no step that recovers it; only a retry
command run by hand does.

### What the repository says and the code does not do

`drafts_moved` is a run of the project: publishing deletes a component that was
moved out of a group when the group is deleted in the same draft, although the
comment at `mongo/draft.py:675` says that a moved child is not deleted.

These configurations end in a counterexample when run by hand
(`tlc -config <name>.cfg <module>.tla`):

* `email_exhausted` (MCCourseEmail): when retries are used up,
  `_submit_for_retry` calls `subtask_status.increment(subtask_status, failed=...)`,
  a `TypeError`; the subtask is recorded with all its recipients failed, those
  already sent to counted twice.
* `email_restart` (MCCourseEmail): a duplicate that read the row early works on
  a subtask that is done, since the lock is taken after the check.
* `email_lock` (MCCourseEmail): after one database error two frames release the
  lock; the second release takes another worker's.
* `email_nobody` (MCCourseEmail): an email without recipients stays in PROGRESS.
* `task_poll_error` (MCInstructorTasks): state and result of a task are read
  separately; an exception read as progress makes the status request fail.
* `task_early_success` (MCInstructorTasks): a status request can report the
  parent's success while the subtasks run.
* `orders_paying` (MCOrders): "At this point, the order should NOT be modified"
  (`shoppingcart/models.py`), yet adding a course from a second tab writes back
  the status "cart" it read before the purchase was started.

## 4. What is proved

Every theorem is for all values of the constants that satisfy the assumptions
named in the module (any sets of recipients, tabs, courses, attempts, any
bounds and faults).  Those that assume more of the constants say so: *one at a
time* is `OneByOne` (duplicates do not overlap, or there are none and `close()`
does not fail), *one parent* is `OneParent`, *parents do not raise* is
`ParentsSucceed` (neither `refused` nor `publish` is among the faults).

| theorem | says |
|---|---|
| `CourseEmail_proofs!TypeCorrect` | `TypeOK` |
| `!BooksAlwaysRight`, and from it `!NobodyForgottenAlways`, `!SettledAlwaysCountsEverybody`, `!RetriesAlwaysBounded`, `!OptoutsAlwaysRespected` | in every state, duplicates and crashes included: the counters and the recipients left make up those the subtask was created for; a subtask recorded as done speaks for all of them; neither kind of retry exceeds its maximum; opt-outs are respected |
| `!OnceInvariant`, and from it `!DoneIsQuietAlways`, `!CountersAlwaysMatch` | while no message is doubled: a subtask recorded as done is in no message and no execution that would still write; the counters that decide when the task is done equal the statuses they stand for |
| `!SharesInvariant`, and from it `!OneEmailPerParentAlways`, `!AtMostOneEmailAlways` | nobody gets more emails than there were parents, and two only if a message was doubled or two parents ran, whatever retries, errors, crashes, expired locks and lost updates do |
| `!LockHasOwnerUntilCrash` | until a worker crashes, every key in the cache belongs to an execution that will release it |
| `!SerialInvariant`, and from it `!CountersMatchSerially`, `!DoneStaysDoneSerially` | one at a time: the counters are right and a done subtask keeps its record although messages are doubled |
| `!ProgressAlwaysAddsUp`, `!ProgressAddsUpSerially` | the counts shown are the sums over the subtasks that are done: while no message is doubled, and one at a time |
| `!RowImplementsLedger` | one at a time, one parent: **the row implements `SubtaskLedger`** |
| `!NothingLostWhileCalm` | parents do not raise: while nothing crashes, enrolments stay and database errors do not use up their retries, every subtask that is not done is about to be queued, queued or executing |
| `!OneEmailWhileCalm` | under the same conditions, one at a time and one parent: nobody is sent two emails |
| `InstructorTasks_proofs!TypeCorrect` | `TypeOK` |
| `!OneTaskPerKeyAlways` | the tasks of one key are recorded and executed one after the other, unless two submissions raced or a message was doubled |
| `!AnswersAreAlwaysFinal` | a final answer is not taken back by a later one |
| `!EndIsAlwaysFinal` | a row that ended is not changed again |
| `!SubtasksAlwaysStay` | recorded subtasks survive every copy saved over the row |
| `!OnlySubtasksEverSucceed` | a task with subtasks succeeds by the last of them alone |
| `ProblemState_proofs!TypeCorrect`, `AttemptsCorrect`, `ScoreCorrect`, `GradeCorrect`, `QueuedCorrect` | `TypeOK` and the four properties of the run `problem_rows`, for any tabs, tasks, answers and keys |
| `Orders_proofs!TypeCorrect`, `VerifiedCorrect`, `PaymentsAlwaysCover`, `RefundsAlwaysPaid` | `TypeOK` and the three properties of the run `orders`: nobody is in the verified track without a certificate bought and not refunded; no order delivers more than was paid for it, if it was not registered without payment; no more is refunded of it, if it was not purchased again by a repeated post either |
| `PhotoVerification_proofs!TypeCorrect`, `ResultsCorrect`, `IdentityKept` | `TypeOK`; a result stands but for the two saves that overwrite it unread; **the attempts implement `Identity`** |
| `Certificates_proofs!TypeCorrect`, `DownloadCorrect`, `VerifiedCorrect`, `RequestCorrect` | `TypeOK` and the three properties of the run `certificates` |
| `DraftStore_proofs!TypeCorrect`, `StudentsSeePublished`, `PublishShows` | `TypeOK`; units look to students as they were published, until they are published or deleted; a publish shows them what the author saw and leaves no draft |
| `!WholeWhilePromised`, `!AssertionHoldsWhilePromised` | while `Promised` holds, students find every child of the units and groups they are shown but where a publish is at work, whatever is moved, refused, deleted and discarded; and a discard comes to no draft without a published version |

So every invariant, action property and refinement that the runs expected to pass
check is a theorem; where it assumes more than
the property says, the configuration of the run has what it assumes (no crashes,
no changing enrolments, fewer database errors than retries; for
the last two, `Promised` as the constraint), but for the refused parent that
`email_ends` has and `!NothingLostWhileCalm` excludes.

### The arguments

*Email, the books.*  The four properties without conditions rest on one
invariant, `Books`: what every message, execution and row says of a subtask is
consistent *on its own* (`Letter`, `Book`, `Speaks`).  A recipient leaves
`to_list` in the step that counts him, a copy is as good as the original, so
neither a duplicate nor a row saved over another can break it; and the two
retry counts are bounded because a message carries both.

*Email, once.*  `DoneIsQuiet` and `CountersMatch` are not inductive: a done subtask is
quiet because *before* it was recorded it was in one hand only.  `OnceInv`
says, as long as no message is doubled, that a subtask is in at most one place
(the ids a parent has yet to queue, a message, an execution), that a place
implies the id was drawn, that an execution past its update holds what the row
says, and that done implies no place.  `AtMostOneEmail` counts shares: a parent
that wrote the row has one email per recipient to hand out; it has it until it
puts him on a list, the list until the email is sent, so emails sent and shares
left are never more than the parents that wrote (`Shares`).

*Email, duplicates.*  One at a time, what makes a copy harmless is
`check_subtask_is_valid`: at most one execution is at work on a subtask
(`OneAtWork`), and it is not at work on one the row has settled (`SerialRows`).
So a second delivery finds the subtask done or retried further and is refused.
For `OneEmailWhileCalm` that is not enough: the *emails* the first one sent must
have been recorded.  `Fresh` says that a message is behind the row, or as far
and nobody on its list has the email; `Alive` that for every subtask not done
somebody up to date goes on with it, which is `NothingLost`.  The invariant of
the theorem needs both, and neither survives a crash: a worker that dies after
sending and before recording leaves the row as far as its message was, and
another copy of that message sends again.

*Email, the ledger.*  The refinement has a step per action of `UpdateStatus`,
`ParentDefine` and `ParentFailSave`: every other step leaves the mapped state
alone.  The parent may be recorded as failed at any time, before it has written subtasks
down too (`Abort`), and by a copy that reopens subtasks closed meanwhile.  That a
status is closed once is `SerialInv`; that the task succeeds with the last is the consistency of the counters with the statuses.

*Sums.*  `ProgressAddsUp` and the costs of orders are sums over finite sets, which the
community modules define by a recursive function on sets.  `Sums_proofs` shows
that this function exists and is unique on the subsets of a finite set, by the
smallest set on which it fails (there is a smallest one by
`FS_StrictSubsetOrderingWellFounded`), and from it that the sum of one element
more is its value more, that sums of equal functions are equal and that sums are
monotone.

*Tasks.*  Each property is about a copy of the row that is saved, and holds
because the row did not change in a way that matters since the copy was made.
`OnceInv` says what makes that true while no message is doubled: a task is
submitted, queued and executed once, in this order; at each stage the row and
the backend are in the states that stage may rely on; a status request has read
a final state only if it is still the state; and unless two submissions raced
only one task is about to be created, or recorded and not ended.

*Problems.*  A row is good if its score, key, grade and attempts fit together.
The invariant says that the row and *every copy* are good, so that a save of a
stale copy cannot make it bad, that what was sent to the grader is of its
answer, answered already or not (`Sent`), and that a copy that is *not* stale
is one step of its owner from the row (`TabInv`, `TaskInv`), so that while nothing was lost
the row moves as if its writers took turns.  The tabs and tasks must be
disjoint and none of them `None` (`ActorsAssumption`), which names the grader.

*Orders.*  Items are delivered with their order (`DeliveredWithOrder`): nothing
in a cart is delivered, a purchase that goes on item by item goes on under an
order that was purchased.  So whatever the cart pages drop or overwrite was
never delivered, a verified enrolment comes with an item bought in the same step
(`PurchaseFacts`), and refunding a certificate takes the enrolment of that
course and leaves the others' certificates alone (`RefundFacts`).  Money needs an
account per order (`Accounts`).  Until it is purchased all its items have its status
(`OneStatus`), so the total that the amount of the post is compared with is that of
all it holds.  From then on it only loses items, so what was paid covers a
price list of everything it held then, and the items, *and the copies of them a
request still has to deliver*, are at their prices (`Covered`).  A request delivers an
item it has a copy of once, and it is the only one that does (`BoughtOnce`), so a
refunded item is not delivered, and refunded, again, and what was refunded is
what the items marked refunded cost (`RefundedOnce`).  A post that purchases a
refunded order again ends the last two, and is the exception `reposted` of the property.  That the
newest cart is a cart takes well-foundedness (`LargestOrder`): `Max` of a finite
set that is not empty.

*Photos.*  What is approved has passed, what has passed exists, and the last
attempt of a window is one of that window (`AttemptsSound`); a copy under way is
of its attempt's window (`CopiesSound`), so a late save moves no attempt to
another window.  An error under way was reported of an attempt without a result, or it
is outdated (`AnswersSound`), which is the exception of `ResultStands`; a result that
says approved is of an attempt that passed.  The abstract `earned` only grows, because
attempts are not deleted and what has passed stays passed when it is denied later (`Kept`).

*Certificates.*  Every copy of the row, committed or about to be, is sound on its
own: a verified one was earned, a request has the template of its mode, or the one
named for it, and so has a file (`Sound`); and two copies generated under one key are of
one mode (`Agree`), since every execution draws a key of its own.  So it does not matter
which copy is saved last.  `RequestCorrect` needs in addition where a key is: about
to be sent, pending, being answered, or astray.

*Drafts.*  A course has four levels, which every create, move and conversion keeps
(`TypeInv`): that is why the four tiers of `Tiers` are the whole tree.  Two stores that
agree on a set of blocks closed under children show the same trees in it
(`SameTrees`, `ClosedTiers`); a request writes nothing published but sections, so units
look the same; and `PublishState` says that a publish works on the tree the author saw
when he asked for it, whose saved drafts are equal to their published versions, since
what it deletes is not in that tree, or `lost` says so.

*Drafts, whole.*  That students find every child is no invariant by itself: a discard
puts a published version back, and what it lists may have been moved or deleted since.
`Sound` says what makes a store safe to discard and publish: published blocks list
published blocks (`AllThere`), drafts in the course list existing ones (`DraftsThere`), a
block that was never published has one lister (`OneLister`), and a group of the course
that has a draft is in the course as the author sees it, and no draft out of the course
lists it (`InPlace`).  The last does not hold in the middle of a request: a group that is
moved is, between two saves, in no list, and one that is deleted still has its draft.  So
`Leads` follows the calls a request has yet to make through stores that are only `Fit`
(all of `Sound` but `InPlace`) to one that is `Sound` again, or for a move that will be
refused to a `Fit` one; a conversion is followed tier by tier.  A request may die after
any call: `NoneLoose` shows that a `Fit` store in which no group is `Loose` is `Sound`, and
a death with one loose is what `died = "torn"` records.  A publish keeps the rest
(`Steady`) and `Holes`: a child is missing only from a block that the publish has yet to
save and whose draft has dropped that child.  `Whole` is all of this and is kept by every
step that keeps `Promised` (`WholeStep`).

The exception is needed.  A component moves from g1 in u1 to g2 in u2, and a move of g2
dies between its two saves, or is refused there.  u1 is discarded, so g1 has the
component again; g1 is deleted and u1 published, which deletes the component.  u2 is
discarded, which brings back g2 with the draft that lists the component, and published:
students are shown g2 with a component that is gone.

### Only model-checked

* Liveness: `TaskFinishes`, `EveryTaskEnds`.  The provers cannot reason about fairness
  and `ENABLED`.

## 5. What is left out

* Text: subjects, templates, the wording and length of outputs, log messages,
  tracking events, statistics.
* Tasks: the expiry of results in the backend; the option to kill a running
  task; a `task_output` too long for its column, over which
  `create_output_for_success` raises; the contents of the grade report.
* Email: an opt-out between two attempts (`Optouts` is constant); pauses and
  countdowns (there is no clock, any delay is an interleaving).  A mail server that takes
  an email and then disconnects: the code (`bulk_email/tasks.py:489`, 530-540) takes the
  error for an email not sent and sends it again; so does `SendFails`, and the second
  email is not counted as one.
* Problems: a change that a whole-row save overwrites is lost.  The code does
  that, no property denies it; `lost` marks it, and the limit of attempts,
  `ScoreIsOfItsAnswer` and the types hold even then.  Several inputs of one problem are one
  answer; hints, due dates and the graders themselves are not there.
* Orders: coupons (they lower a price), donations, gift certificates, the
  professional mode and expired modes, two requests creating a cart at once, and
  the overlap of requests that are a single transaction.
* `MidCourseReverifyView` puts whoever opens it in the verified track: an
  exception in `VerifiedIsPaid` (`upgraded`), not a property.
* What `RefundsWerePaid` excepts, because the code does refund it: a post that comes again
  after a refund purchases the order again, unpaid, and the next unenrolment refunds it
  a second time (`reposted`); `register_courses` enrols without a look at the price, and
  what was registered so is refunded though nothing was paid (`unpriced`, excepted in
  `PaymentsCoverPurchases` too); and an order whose status a copy has overwritten
  (`raced`, excepted in all three properties).
* Photos and certificates: encryption, the wording of errors, `del_cert`, which
  raises `NotImplementedError`.  A verified certificate asks for photos that passed
  at *some* time: they may have been denied since, or expired after grading.
* What `ResultStands` excepts: a submission that is saved after its own answer, and an error
  read by one callback before another saves the result, and saved after it (`outdated`).
  With two callbacks at once `verify_student/views.py:301` lets the error take the
  approval back.
* What `DownloadIsAsRecorded` excepts: a template named on the command line
  (`regenerate_user -T`) overrides that of the mode (`queue.py:237`), and the row still
  records the mode.  The agent answers each request once, and `update_certificate` does
  not die between its read and its save.
* Drafts: `unpublish`, which no handler calls; imports, inherited metadata, tabs,
  several authors at once; duplicating a block (`item.py:514-564`).  A save that
  publishes as well (`item.py:438-445`) is a save and a publish.
* Drafts, calls taken together: a discard is one removal, while `revert_to_published`
  removes each subtree that has a draft in a call of its own (`draft.py:734-744`); a
  deletion takes a block out of several draft parents in one call, the code one after the
  other (`draft.py:512-525`).  After a conversion the code takes the block out of the
  published document's children and saves that as the draft, the model out of the draft;
  they differ once a block has two published parents.
* Whole units are not claimed after a request died at one of these points (`died =
  "torn"`): a publish between deleting a dropped child and saving its parent; a move
  between its two saves, or a deletion before it has removed the drafts, when a group
  that students or the author are shown has a draft, or is listed by one, that is out of
  the course.  A move that is refused between its saves is the same.  The stale draft may
  come back with a discard, and publishing it shows students a group without its
  component.  Nor are they claimed once a block has two published parents (its lookup then
  fails by an assertion), or after orphans were deleted that documents elsewhere still
  listed (`lost`).

## 6. Plan

1. `SplitStore`: the index and structures of the split modulestore, two writers,
   `force`, and the abstract register that conflicting updates implement.
2. `DraftStore`: metadata; two authors.
3. Small modules for cohorts, course action state, configuration models and
   opt-outs that arrive late.
4. The chain of child tasks of open ended assessment, over `ProblemState`'s row.
5. More theorems: which steps of `DraftStore` keep `Promised`, so that the last two
   theorems hold of single requests without it.
