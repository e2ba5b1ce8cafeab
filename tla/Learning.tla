------------------------------ MODULE Learning ------------------------------
(***************************************************************************)
(* Courses with chapters and lessons, the progress of the learners, their  *)
(* certificates, attempts at an assessment, reviews and notes.             *)
(* Enrollments and assessments are made outside this code.  The client     *)
(* says to which course a lesson belongs whose progress it reports.        *)
(***************************************************************************)
EXTENDS Caches, Sequences

VARIABLE points \* what each user has earned, counted in lessons, or NONE

CourseOps == {"createCourse", "listCourses", "getCourseDetail", "updateThumbnail", "deleteCourse"}
CurriculumOps == {"addChapter", "addLesson", "uploadMaterial", "getLessonMaterials",
                  "reorderChapters", "reorderLessons"}
PlayerOps == {"checkAccess", "updateProgress", "getCourseProgress", "createNote", "getMyNotes",
              "deleteNote"}
AssessmentOps == {"startAttempt", "submitAssessment", "uploadAssignment"}
CredentialOps == {"checkAndGenerate", "getMyCertificates", "verify"}
ForumOps == {"createThread", "addComment", "getThreadsByLesson", "getCommentsByThread"}
ReviewOps == {"createReview", "getCourseReviews"}
OperationOps == {"updateEnrollmentStatus", "getInstructorStats"}
AdvancedLearningOps == {"getLeaderboard", "getUserRank", "getPackage", "trackXApiStatement"}
ReportingOps == {"getCoursePerformance", "getLearnerReport"}
ExternalOps == {"enroll", "assess"}

CourseRows == [slug : Keys, strict : BOOLEAN, thumbnail : Requests \cup {NONE}]
ChapterRows == [course : Requests, order : Nat]
LessonRows == [chapter : Requests, order : Nat, preview : BOOLEAN]
EnrollmentRows == [course : Requests, user : People, status : {"ACTIVE", "PENDING", "EXPIRED"}]
ProgressRows == [user : People, course : Requests, lesson : Requests, done : BOOLEAN]
CertificateRows == [user : People, course : Requests]
AssessmentRows == [course : Requests, attempts : Nat]
AttemptRows == [user : People, assessment : Requests, status : {"IN_PROGRESS", "COMPLETED"}]
SubmissionRows == [attempt : Requests, answers : Requests \cup {NONE}, files : SUBSET Requests]
ReviewRows == [user : People, course : Requests]
Remarks == [user : People, about : Requests]

LearningInit == points = [u \in People |-> NONE]

ChaptersOf(c) == {x \in Table("addChapter") : rows[x].course = c}
LessonsOf(c) == {x \in Table("addLesson") : rows[x].chapter \in ChaptersOf(c)}
ProgressOn(lesson, u) ==
  {x \in Table("updateProgress") : rows[x].lesson = lesson /\ rows[x].user = u}
Completed(c, u) ==
  {x \in Table("updateProgress") : rows[x].course = c /\ rows[x].user = u /\ rows[x].done}
Certificates(c, u) ==
  {x \in Table("checkAndGenerate") : rows[x] = [user |-> u, course |-> c]}
AttemptsAt(a, u) ==
  {x \in Table("startAttempt") : rows[x].assessment = a /\ rows[x].user = u}
Submissions(a) ==
  {x \in Table("submitAssessment") \cup Table("uploadAssignment") : rows[x].attempt = a}
ReviewsOf(c) == {x \in Table("createReview") : rows[x].course = c}

----------------------------------------------------------------------------
\* A unique slug
createCourse(r) ==
  /\ \/ /\ Began(r, "createCourse")
        /\ Goto(r, "insert_course")
        /\ UNCHANGED <<locals, recordVars>>
     \/ /\ pc[r] = "insert_course"
        /\ Put(r, [slug |-> Key(r), strict |-> Arg(r) = "STRICT", thumbnail |-> NONE])
        /\ Goto(r, "ok")
        /\ UNCHANGED <<locals, held>>
  /\ \A x \in Table("createCourse") : rows[x].slug # Key(r)

\* The file is uploaded between findOne and save.
updateThumbnail(r) ==
  \/ Began(r, "updateThumbnail") /\ Find(r, "upload_thumbnail")
  \/ /\ pc[r] = "upload_thumbnail"
     /\ Goto(r, "save_thumbnail")
     /\ UNCHANGED <<locals, recordVars>>
  \/ /\ pc[r] = "save_thumbnail"
     /\ Save(r, [seen[r] EXCEPT !.thumbnail = r], "ok")

\* Chapters and lessons are deleted with the course; certificates, enrollments
\* and assessments keep it.
deleteCourse(r) ==
  \/ Began(r, "deleteCourse") /\ Find(r, "delete_course")
  \/ /\ pc[r] = "delete_course"
     /\ \A x \in Table("checkAndGenerate") \cup Table("enroll") \cup Table("assess") :
          rows[x].course # target[r]
     /\ LET gone == {target[r]} \cup ChaptersOf(target[r]) \cup LessonsOf(target[r])
        IN  rows' = [x \in Requests |-> IF x \in gone THEN NONE ELSE rows[x]]
     /\ Goto(r, "ok")
     /\ UNCHANGED <<locals, held>>

\* Foreign keys: the course, or the chapter, must be there.
addChapter(r) ==
  Live(On(r)) /\ Insert(r, "addChapter", [course |-> On(r), order |-> call[r].no])

addLesson(r) ==
  /\ Live(On(r))
  /\ Insert(r, "addLesson",
            [chapter |-> On(r), order |-> call[r].no, preview |-> Arg(r) = "PREVIEW"])

\* One update for each lesson, or chapter, of the list, numbered from zero
Reorder(r) ==
  \/ /\ Began(r, "reorderLessons") \/ Began(r, "reorderChapters")
     /\ Hold(r, 1)
     /\ Goto(r, IF call[r].ids = <<>> THEN "ok" ELSE "reorder")
     /\ UNCHANGED <<rows, locals>>
  \/ /\ pc[r] = "reorder"
     /\ rows' = [rows EXCEPT ![call[r].ids[held[r]]] =
                   IF @ = NONE THEN NONE ELSE [@ EXCEPT !.order = held[r] - 1]]
     /\ IF held[r] < Len(call[r].ids) THEN Hold(r, held[r] + 1) /\ UNCHANGED <<pc, before>>
        ELSE Goto(r, "ok") /\ UNCHANGED held
     /\ UNCHANGED locals

CourseStep(r) ==
  /\ \/ createCourse(r) \/ updateThumbnail(r) \/ deleteCourse(r)
     \/ addChapter(r) \/ addLesson(r) \/ Reorder(r)
  /\ UNCHANGED points

----------------------------------------------------------------------------
\* Refused as in Fails when an answer is missing, or the lesson is not unlocked
\* yet.
FindLesson(r) ==
  /\ Began(r, "checkAccess")
  /\ Find(r, IF rows[On(r)].preview THEN "ok" ELSE "find_enrollment")

FindEnrollment(r) ==
  /\ pc[r] = "find_enrollment"
  /\ \E x \in Table("enroll") : /\ On(r) \in LessonsOf(rows[x].course)
                                /\ rows[x].user = By(r) /\ rows[x].status = "ACTIVE"
                                /\ Hold(r, rows[x].course)
  /\ Goto(r, "find_course")
  /\ UNCHANGED <<rows, locals>>

FindCourse(r) ==
  /\ pc[r] = "find_course"
  /\ Goto(r, IF Live(held[r]) /\ rows[held[r]].strict THEN "find_previous" ELSE "ok")
  /\ UNCHANGED <<recordVars, locals>>

Previous(r) ==
  {x \in Table("addLesson") : rows[x].chapter = seen[r].chapter
                              /\ rows[x].order + 1 = seen[r].order}

FindPrevious(r) ==
  /\ pc[r] = "find_previous"
  /\ \/ Previous(r) = {} /\ Goto(r, "ok") /\ UNCHANGED held
     \/ \E x \in Previous(r) : Hold(r, x) /\ Goto(r, "find_progress")
  /\ UNCHANGED <<rows, locals>>

CheckPrevious(r) ==
  /\ pc[r] = "find_progress"
  /\ \E x \in ProgressOn(held[r], By(r)) : rows[x].done
  /\ Goto(r, "ok")
  /\ UNCHANGED <<recordVars, locals>>

----------------------------------------------------------------------------
\* The progress on the lesson, or a new one
FindProgress(r) ==
  /\ Began(r, "updateProgress")
  /\ LET found == ProgressOn(On(r), By(r))
         x == IF found = {} THEN r ELSE CHOOSE y \in found : TRUE
     IN  /\ Reads(r, x, rows[x])
         /\ Goto(r, IF Arg(r) = "DONE" /\ (rows[x] = NONE \/ ~rows[x].done)
                    THEN "find_points" ELSE "save_progress")
  /\ UNCHANGED <<recordVars, points>>

\* The points are awarded before the progress is saved; when that fails the
\* progress is saved all the same.
FindPoints(r) ==
  /\ pc[r] = "find_points"
  /\ Hold(r, points[By(r)])
  /\ Goto(r, "award")
  /\ UNCHANGED <<rows, points, locals>>

\* A new row must be the only one of the user.
awardXP(r) ==
  /\ pc[r] = "award"
  /\ held[r] = NONE => points[By(r)] = NONE
  /\ points' = [points EXCEPT ![By(r)] = IF held[r] = NONE THEN 1 ELSE held[r] + 1]
  /\ Goto(r, "save_progress")
  /\ UNCHANGED <<recordVars, locals>>

AwardFails(r) ==
  /\ pc[r] \in {"find_points", "award"}
  /\ Goto(r, "save_progress")
  /\ UNCHANGED <<recordVars, points, locals>>

\* The row of a user and a lesson is unique.
SaveProgress(r) ==
  /\ pc[r] = "save_progress"
  /\ ProgressOn(On(r), By(r)) \subseteq {target[r]}
  /\ Save(r, IF target[r] = r
             THEN [user |-> By(r), course |-> Place(r), lesson |-> On(r), done |-> Arg(r) = "DONE"]
             ELSE [seen[r] EXCEPT !.done = @ \/ Arg(r) = "DONE"],
          "ok")
  /\ UNCHANGED points

PlayerStep(r) ==
  \/ /\ \/ FindLesson(r) \/ FindEnrollment(r) \/ FindCourse(r) \/ FindPrevious(r)
        \/ CheckPrevious(r)
     /\ UNCHANGED points
  \/ FindProgress(r) \/ FindPoints(r) \/ awardXP(r) \/ AwardFails(r) \/ SaveProgress(r)

----------------------------------------------------------------------------
\* One certificate for a user and a course, ...
FindCertificate(r) ==
  /\ Began(r, "checkAndGenerate")
  /\ Goto(r, IF Certificates(On(r), By(r)) = {} THEN "count_lessons" ELSE "ok")
  /\ UNCHANGED <<recordVars, locals>>

CountLessons(r) ==
  /\ \/ pc[r] = "count_lessons"
     \/ pc[r] = "idle" /\ Op(r) \in {"createReview", "getCourseProgress"}
  /\ Hold(r, Cardinality(LessonsOf(On(r))))
  /\ Goto(r, "count_completed")
  /\ UNCHANGED <<rows, locals>>

\* ... when he has completed as many lessons as it has.  A review needs half
\* of them.
CountCompleted(r) ==
  /\ pc[r] = "count_completed"
  /\ LET done == Cardinality(Completed(On(r), By(r)))
     IN  CASE Op(r) = "checkAndGenerate" ->
                held[r] # 0 /\ done >= held[r] /\ Goto(r, "insert_certificate")
           [] Op(r) = "createReview" ->
                held[r] # 0 /\ 2 * done >= held[r] /\ Goto(r, "find_review")
           [] OTHER -> Goto(r, "ok")
  /\ UNCHANGED <<recordVars, locals>>

InsertCertificate(r) ==
  /\ pc[r] = "insert_certificate"
  /\ Live(On(r))
  /\ Put(r, [user |-> By(r), course |-> On(r)])
  /\ Goto(r, "ok")
  /\ UNCHANGED <<held, locals>>

\* The review of a user and a course is unique.
createReview(r) ==
  /\ \A x \in ReviewsOf(On(r)) : rows[x].user # By(r)
  /\ \/ /\ pc[r] = "find_review"
        /\ Goto(r, "insert_review")
        /\ UNCHANGED <<recordVars, locals>>
     \/ /\ pc[r] = "insert_review"
        /\ Put(r, [user |-> By(r), course |-> On(r)])
        /\ Goto(r, "ok")
        /\ UNCHANGED <<held, locals>>

CredentialStep(r) ==
  /\ \/ FindCertificate(r) \/ CountLessons(r) \/ CountCompleted(r) \/ InsertCertificate(r)
     \/ createReview(r)
  /\ UNCHANGED points

----------------------------------------------------------------------------
FindAssessment(r) ==
  /\ Began(r, "startAttempt")
  /\ Find(r, "count_attempts")

\* Mutation: one attempt too many.
CountAtMost(r) ==
  /\ pc[r] = "count_attempts"
  /\ Cardinality(AttemptsAt(target[r], By(r))) <= seen[r].attempts
  /\ Goto(r, "insert_attempt")
  /\ UNCHANGED <<recordVars, locals>>

CountAttempts(r) ==
  /\ pc[r] = "count_attempts"
  /\ Cardinality(AttemptsAt(target[r], By(r))) < seen[r].attempts
  /\ Goto(r, "insert_attempt")
  /\ UNCHANGED <<recordVars, locals>>

InsertAttempt(r) ==
  /\ pc[r] = "insert_attempt"
  /\ Live(target[r])
  /\ Put(r, [user |-> By(r), assessment |-> target[r], status |-> "IN_PROGRESS"])
  /\ Goto(r, "ok")
  /\ UNCHANGED <<held, locals>>

FindAttempt(r) ==
  /\ Began(r, "submitAssessment")
  /\ Live(On(r)) /\ rows[On(r)].user = By(r) /\ rows[On(r)].status = "IN_PROGRESS"
  /\ Find(r, "find_questions")

FindQuestions(r) ==
  /\ pc[r] = "find_questions"
  /\ Goto(r, "insert_submission")
  /\ UNCHANGED <<recordVars, locals>>

InsertSubmission(r) ==
  /\ pc[r] = "insert_submission"
  /\ Put(r, [attempt |-> target[r], answers |-> r, files |-> {}])
  /\ Goto(r, "save_attempt")
  /\ UNCHANGED <<held, locals>>

SaveAttempt(r) ==
  /\ pc[r] = "save_attempt"
  /\ Save(r, [seen[r] EXCEPT !.status = "COMPLETED"], "ok")

\* The file is uploaded; then the submission of the attempt, or a new one
uploadAssignment(r) ==
  \/ /\ Began(r, "uploadAssignment")
     /\ Goto(r, "find_submission")
     /\ UNCHANGED <<recordVars, locals>>
  \/ /\ pc[r] = "find_submission"
     /\ LET own == {x \in Submissions(On(r)) : By(x) = By(r)}
        IN  \/ own = {} /\ Reads(r, r, NONE)
            \/ \E x \in own : Reads(r, x, rows[x])
     /\ Goto(r, "save_submission")
     /\ UNCHANGED recordVars
  \/ /\ pc[r] = "save_submission"
     /\ Save(r, IF target[r] = r THEN [attempt |-> On(r), answers |-> NONE, files |-> {r}]
                ELSE [seen[r] EXCEPT !.files = @ \cup {r}],
             "ok")

AssessmentStep(r) ==
  /\ \/ FindAssessment(r) \/ CountAttempts(r) \/ InsertAttempt(r)
     \/ FindAttempt(r) \/ FindQuestions(r) \/ InsertSubmission(r) \/ SaveAttempt(r)
     \/ uploadAssignment(r)
  /\ UNCHANGED points

----------------------------------------------------------------------------
updateEnrollmentStatus(r) ==
  \/ Began(r, "updateEnrollmentStatus") /\ Find(r, "save_enrollment")
  \/ pc[r] = "save_enrollment" /\ Save(r, [seen[r] EXCEPT !.status = Arg(r)], "ok")

Remark(r) == [user |-> By(r), about |-> On(r)]

\* Notes, threads, comments and material are inserted; a comment needs its
\* thread.  Material is uploaded first.
AddRemark(r) ==
  \/ Insert(r, "createNote", Remark(r))
  \/ Insert(r, "createThread", Remark(r))
  \/ Began(r, "addComment") /\ Find(r, "insert_remark")
  \/ /\ Began(r, "uploadMaterial")
     /\ Goto(r, "insert_remark")
     /\ UNCHANGED <<recordVars, locals>>
  \/ /\ pc[r] = "insert_remark"
     /\ Put(r, Remark(r))
     /\ Goto(r, "ok")
     /\ UNCHANGED <<held, locals>>

\* The own note, or nothing
DeleteNote(r) ==
  \/ /\ Began(r, "deleteNote")
     /\ Live(On(r)) => rows[On(r)].user = By(r)
     /\ Reads(r, On(r), rows[On(r)])
     /\ Goto(r, IF Live(On(r)) THEN "remove_note" ELSE "ok")
     /\ UNCHANGED recordVars
  \/ pc[r] = "remove_note" /\ Save(r, NONE, "ok")

About(op, x) == {y \in Table(op) : rows[y].about = x}

\* Active enrollments, in a course or of a user, and then the attempts
Report(r) ==
  \/ /\ \/ /\ Began(r, "getCoursePerformance")
           /\ Sees(r, {x \in Table("enroll") : rows[x].course = On(r)})
        \/ /\ Began(r, "getLearnerReport")
           /\ Sees(r, {x \in Table("enroll") : rows[x].user = By(r)})
     /\ Goto(r, "find_attempts")
     /\ UNCHANGED recordVars
  \/ /\ pc[r] = "find_attempts"
     /\ Sees(r, todo[r] \cup UNION {AttemptsAt(x, By(r)) : x \in Table("assess")})
     /\ Goto(r, "ok")
     /\ UNCHANGED recordVars

\* Queries whose result is the answer
LearningAnswers(r) ==
  [listCourses |-> Table("createCourse"),
   getCourseDetail |-> {On(r)} \cup ChaptersOf(On(r)) \cup LessonsOf(On(r)),
   getLessonMaterials |-> About("uploadMaterial", On(r)),
   getMyNotes |-> {x \in About("createNote", On(r)) : rows[x].user = By(r)},
   getThreadsByLesson |-> About("createThread", On(r)),
   getCommentsByThread |-> About("addComment", On(r)),
   getMyCertificates |-> {x \in Table("checkAndGenerate") : rows[x].user = By(r)},
   verify |-> {On(r)} \cap Table("checkAndGenerate"),
   getCourseReviews |-> ReviewsOf(On(r)),
   getInstructorStats |-> {x \in Table("enroll") : rows[x].status = "ACTIVE"},
   getLeaderboard |-> {}, getUserRank |-> {}, getPackage |-> {}, trackXApiStatement |-> {}]

AnswerLearner(r) ==
  /\ Op(r) \in DOMAIN LearningAnswers(r)
  /\ Answer(r, Op(r), LearningAnswers(r)[Op(r)])

LearningStep(r) ==
  \/ CourseStep(r) \/ PlayerStep(r) \/ CredentialStep(r) \/ AssessmentStep(r)
  \/ /\ \/ updateEnrollmentStatus(r) \/ AddRemark(r) \/ DeleteNote(r) \/ Report(r)
        \/ AnswerLearner(r)
     /\ UNCHANGED points
=============================================================================
